---- MODULE Spec2Model ----
(***************************************************************************)
(* The canvas annotation editor of magic-markup                            *)
(* (src/src/components/magic-markup-editor.tsx): the scene                 *)
(* (canvasObjects), the undo/redo history (history, historyPointer), the   *)
(* pointer interaction state and the session list, as one state machine.   *)
(*                                                                         *)
(* JavaScript arrays and objects are references.  The model keeps a heap:  *)
(* objs holds the scene objects, arrs holds the arrays of object           *)
(* references, and every program variable that holds an array holds an     *)
(* index into arrs.  A shallow copy ([...prev], map, filter) makes a new   *)
(* array over the same objects; JSON.parse(JSON.stringify(x)) makes new    *)
(* objects with equal field values.  After every step the heap is garbage  *)
(* collected and renumbered in the order the program variables reach it,   *)
(* so that two states differ only when the program could tell them apart.  *)
(*                                                                         *)
(* One action is one event handler (or one image onload callback) followed *)
(* by the React render it causes and the effects of that render.  A call   *)
(* of handleGenerate is one action per stretch between two awaits.  The     *)
(* TextAnnotator (src/src/components/text-annotator.tsx) is modelled by     *)
(* its two coordinate conversions and its save handler.                     *)
(***************************************************************************)
EXTENDS Integers, Sequences, FiniteSets, TLC

\* ------------------------------------------------------------------ bounds
MaxObjects == 2
MaxPoints == 3
MaxHist == 4
MaxPending == 2
MaxIds == 2
MaxSessions == 2
MaxRequests == 2
MaxAdds == 2

\* ------------------------------------------------------- program constants
MAX_DIMENSION == 1000
BRUSH_SIZE_MEDIUM == 10
HIT_TOLERANCE == 5
FONT_FACTOR == 4

EDITOR_COLOR == "#D35898"

\* Inputs: the image-space points a pointer event can report, the texts the
\* user types, the images the user uploads.
Pts == { <<10, 10>>, <<20, 15>> }
Texts == { "hello" }
Images == { "imgA", "imgB" }
Prompts == { "", "moody sky" }

\* The image a generation request returns.
EditedImage == "imgG"

NoImage == "null"
NoText == "undefined"
NoPoint == << >>
NoElements == << NoImage, NoImage, NoImage >>
ElementImages == { "elA" }
NoKey == "null"
Keys == { "key" }
Tools == { "select", "highlight", "annotate", "erase" }

\* canvas.width is the natural width of the base image, which resizeImage
\* has scaled to MAX_DIMENSION.
CanvasWidth == MAX_DIMENSION
StrokeWidth == BRUSH_SIZE_MEDIUM * (CanvasWidth \div MAX_DIMENSION)
FontSize == BRUSH_SIZE_MEDIUM * FONT_FACTOR * (CanvasWidth \div MAX_DIMENSION)

\* ctx.measureText(text).width: a positive width for a non-empty text.
MeasureText(t) == IF t = "hello" THEN 15 ELSE 0

VARIABLES
  objs,               \* heap: the CanvasObject values, by object reference
  arrs,               \* heap: the arrays of object references, by array reference
  canvasObjects,      \* useState: reference of the scene array
  history,            \* history.current: sequence of array references
  historyPointer,     \* historyPointer.current (0-based, -1 before mount)
  pending,            \* image onload callbacks not yet run: their closures
  sessionHistory,     \* useState: the session items
  activeHistoryId,    \* useState
  baseImage,          \* useState
  confirmingNewImage, \* useState
  editingAnnotation,  \* useState: reference of the annotation being edited, 0 = null
  tool,               \* useState
  isDrawing,          \* interactionState.current.isDrawing
  isDragging,         \* interactionState.current.isDragging
  dragOffset,         \* interactionState.current.dragOffset
  lastClickRecent,    \* Date.now() - interactionState.current.lastClickTime < 300
  nextId,             \* the next value of Date.now()
  sameMs,             \* the clock still shows the value the last Date.now() returned
  isLoading,          \* useState
  generatedImage,     \* useState
  requests,           \* the calls of handleGenerate that have not returned
  toast,              \* the title of the last toast shown
  elementImageUrls,   \* useState: the three element image slots
  apiKey,             \* useState of the page: the API key the user saved
  isApiKeyDialogOpen, \* useState of the page
  elementAdds,        \* the calls of addElementImage that wait at an await
  gestureStroke,      \* history variable: id of the stroke the pointer-down of the
                      \* gesture in progress created, 0 if there is none
  gesture             \* history variable: the gesture being followed (see BeginGesture)

vars == << objs, arrs, canvasObjects, history, historyPointer, pending,
           sessionHistory, activeHistoryId, baseImage, confirmingNewImage,
           editingAnnotation, tool, isDrawing, isDragging, dragOffset,
           lastClickRecent, nextId, sameMs, isLoading, generatedImage, requests,
           elementImageUrls, apiKey, isApiKeyDialogOpen, elementAdds,
           toast, gestureStroke, gesture >>

\* ------------------------------------------------------------ sequences
Dedup(s) ==
  LET F[i \in 0..Len(s)] ==
        IF i = 0 THEN << >>
        ELSE LET prev == F[i-1]
             IN IF \E j \in 1..Len(prev) : prev[j] = s[i]
                THEN prev ELSE Append(prev, s[i])
  IN F[Len(s)]

IndexOf(s, x) == CHOOSE i \in 1..Len(s) : s[i] = x

Flatten(ss) ==
  LET F[i \in 0..Len(ss)] == IF i = 0 THEN << >> ELSE F[i-1] \o ss[i]
  IN F[Len(ss)]

\* ------------------------------------------------------------ the objects
Highlight(id, p) ==
  [ type |-> "highlight", id |-> id, color |-> EDITOR_COLOR, points |-> << p >>,
    strokeWidth |-> StrokeWidth, text |-> NoText, position |-> NoPoint,
    fontSize |-> 0, width |-> 0, height |-> 0, selected |-> "undefined" ]

Annotation(id, t, p) ==
  [ type |-> "annotation", id |-> id, color |-> EDITOR_COLOR, points |-> << >>,
    strokeWidth |-> 0, text |-> t, position |-> p,
    fontSize |-> FontSize, width |-> 0, height |-> 0, selected |-> "undefined" ]

\* ------------------------------------------------------------ the world
\* The state the handlers set, as one record they transform.
World ==
  [ objs |-> objs, arrs |-> arrs, scene |-> canvasObjects, hist |-> history,
    ptr |-> historyPointer, pend |-> pending, sess |-> sessionHistory,
    editing |-> editingAnnotation, base |-> baseImage, reqs |-> requests,
    elemUrls |-> elementImageUrls, apiKey |-> apiKey, keyDialog |-> isApiKeyDialogOpen,
    adds |-> elementAdds ]

\* The object values of array a, in order.
Content(W, a) == [ j \in 1..Len(W.arrs[a]) |-> W.objs[W.arrs[a][j]] ]

\* A new array holding the references refs; its reference is Len(arrs) + 1.
NewArray(W, refs) == [ W EXCEPT !.arrs = Append(@, refs) ]
LastArray(W) == Len(W.arrs)

\* New objects with the values vals; their references follow Len(objs).
NewObjects(W, vals) == [ W EXCEPT !.objs = @ \o vals ]

\* The numbers that are not finite.  Infinity stands above every number the
\* model computes, NaN is no number at all, and Null is what JSON makes of
\* both.
Infinity == 1000000000
NaN == Infinity + 1
Null == Infinity + 2
IsFinite(n) == 0 - Infinity < n /\ n < Infinity

\* JSON.parse(JSON.stringify(n)): a number that is not finite is written as
\* null.
JsonNumber(n) == IF IsFinite(n) THEN n ELSE Null
JsonPoint(p) == IF p = NoPoint THEN p ELSE << JsonNumber(p[1]), JsonNumber(p[2]) >>
JsonObject(o) ==
  [ o EXCEPT !.position = JsonPoint(@),
             !.points = [ k \in 1..Len(@) |-> JsonPoint(@[k]) ] ]

\* Garbage collection and renumbering of the heap.
Canon(W) ==
  LET arrRoots == << W.scene >> \o W.hist
                    \o [ i \in 1..Len(W.pend) |-> W.pend[i].arr ]
                    \o [ i \in 1..Len(W.sess) |-> W.sess[i].annotations ]
      liveArrs == Dedup(arrRoots)
      objRoots == Flatten([ i \in 1..Len(liveArrs) |-> W.arrs[liveArrs[i]] ])
                    \o (IF W.editing = 0 THEN << >> ELSE << W.editing >>)
                    \o SelectSeq([ i \in 1..Len(W.pend) |-> W.pend[i].editing ],
                                 LAMBDA o : o # 0)
                    \o Flatten([ i \in 1..Len(W.reqs) |-> W.reqs[i].refs ])
      liveObjs == Dedup(objRoots)
      ra(a) == IndexOf(liveArrs, a)
      ro(o) == IF o = 0 THEN 0 ELSE IndexOf(liveObjs, o)
  IN [ objs |-> [ i \in 1..Len(liveObjs) |-> W.objs[liveObjs[i]] ],
       arrs |-> [ i \in 1..Len(liveArrs) |->
                    [ j \in 1..Len(W.arrs[liveArrs[i]]) |-> ro(W.arrs[liveArrs[i]][j]) ] ],
       scene |-> ra(W.scene),
       hist |-> [ i \in 1..Len(W.hist) |-> ra(W.hist[i]) ],
       ptr |-> W.ptr,
       pend |-> [ i \in 1..Len(W.pend) |->
                    [ arr |-> ra(W.pend[i].arr), editing |-> ro(W.pend[i].editing) ] ],
       sess |-> [ i \in 1..Len(W.sess) |->
                    [ W.sess[i] EXCEPT !.annotations = ra(@) ] ],
       editing |-> ro(W.editing),
       base |-> W.base,
       reqs |-> [ i \in 1..Len(W.reqs) |->
                    [ W.reqs[i] EXCEPT !.refs = [ k \in 1..Len(@) |-> ro(@[k]) ] ] ],
       elemUrls |-> W.elemUrls, apiKey |-> W.apiKey, keyDialog |-> W.keyDialog,
       adds |-> W.adds ]

DeepCopy(W, a) ==
  LET vals == [ j \in 1..Len(W.arrs[a]) |-> JsonObject(W.objs[W.arrs[a][j]]) ]
      refs == [ j \in 1..Len(vals) |-> Len(W.objs) + j ]
  IN NewArray(NewObjects(W, vals), refs)

\* ------------------------------------------------------------ history
\* saveHistory with the pointer set to the length of the history, one past
\* its last entry.
saveHistoryPastEnd(W, a) ==
  LET kept == IF W.ptr < Len(W.hist) - 1 THEN SubSeq(W.hist, 1, W.ptr + 1) ELSE W.hist
      C == DeepCopy(W, a)
  IN [ C EXCEPT !.hist = Append(kept, LastArray(C)), !.ptr = Len(kept) + 1 ]

\* saveHistory, for the canvasObjects array a its closure holds.
saveHistory(W, a) ==
  LET kept == IF W.ptr < Len(W.hist) - 1 THEN SubSeq(W.hist, 1, W.ptr + 1) ELSE W.hist
      C == DeepCopy(W, a)
  IN [ C EXCEPT !.hist = Append(kept, LastArray(C)), !.ptr = W.ptr + 1 ]

CanUndo(p) == p > 0

undo(W) ==
  IF CanUndo(W.ptr)
  THEN [ W EXCEPT !.ptr = W.ptr - 1, !.scene = W.hist[W.ptr] ]
  ELSE W

CanRedo(p, n) == p < n - 1

\* redo that, at the last entry, installs the last entry again.
redoReloadsLast(W) ==
  IF CanRedo(W.ptr, Len(W.hist))
  THEN [ W EXCEPT !.ptr = W.ptr + 1, !.scene = W.hist[W.ptr + 2] ]
  ELSE [ W EXCEPT !.scene = W.hist[Len(W.hist)] ]

redo(W) ==
  IF CanRedo(W.ptr, Len(W.hist))
  THEN [ W EXCEPT !.ptr = W.ptr + 1, !.scene = W.hist[W.ptr + 2] ]
  ELSE W

handleClear(W) ==
  LET A == NewArray(W, << >>)
      B == NewArray(A, << >>)
  IN [ B EXCEPT !.scene = LastArray(A), !.hist = << LastArray(B) >>, !.ptr = 0 ]

\* The effect that registers the paste and keydown listeners: it also pushes
\* an empty entry and resets the pointer, every time it runs.
ListenerEffect(W) ==
  LET A == NewArray(W, << >>)
  IN [ A EXCEPT !.hist = Append(W.hist, LastArray(A)), !.ptr = 0 ]

\* ------------------------------------------------------------ rendering
\* redrawCanvas of a closure over the array a and the editing annotation ed:
\* it caches the measured width and height on the annotation objects.
redrawCanvas(W, a, ed) ==
  LET inArr(r) == \E j \in 1..Len(W.arrs[a]) : W.arrs[a][j] = r
      skip(o) == ed # 0 /\ W.objs[ed].id = o.id
      measure(o) == /\ ~skip(o)
                    /\ o.type = "annotation"
                    /\ (o.width = 0 \/ o.height = 0)
  IN [ W EXCEPT !.objs = [ r \in 1..Len(W.objs) |->
         IF inArr(r) /\ measure(W.objs[r])
         THEN [ W.objs[r] EXCEPT !.width = MeasureText(W.objs[r].text),
                                 !.height = W.objs[r].fontSize ]
         ELSE W.objs[r] ] ]

\* The image-load effect: a new Image whose onload will redraw and save.
ImageEffect(W) ==
  [ W EXCEPT !.pend = Append(@, [ arr |-> W.scene, editing |-> W.editing ]) ]

\* The render after a handler changed the state from W0 to W1, and the
\* effects whose dependencies changed.  elems: elementImages was set.
Render(W0, W1, elems) ==
  LET sc == W1.scene # W0.scene
      ed == W1.editing # W0.editing
      bs == W1.base # W0.base
      ss == W1.sess # W0.sess
      A == IF sc \/ ed \/ bs \/ ss \/ elems THEN ListenerEffect(W1) ELSE W1
      B == IF (bs \/ sc \/ ed) /\ A.base # NoImage THEN ImageEffect(A) ELSE A
      C == IF (sc \/ ed) /\ B.base # NoImage
           THEN redrawCanvas(B, B.scene, B.editing) ELSE B
  IN C

\* ------------------------------------------------------------ hit testing
\* The test of hitTest with the tolerance left out of the radius of a stroke.
MatchesNoTolerance(o, p) ==
  IF o.type = "annotation"
  THEN /\ o.width # 0 /\ o.height # 0
       /\ p[1] >= o.position[1] /\ p[1] <= o.position[1] + o.width
       /\ p[2] >= o.position[2] - o.height /\ p[2] <= o.position[2]
  ELSE /\ o.type = "highlight"
       /\ \E i \in 1..Len(o.points) :
            LET dx == o.points[i][1] - p[1]
                dy == o.points[i][2] - p[2]
            IN 4 * (dx * dx + dy * dy) < o.strokeWidth * o.strokeWidth

\* The test hitTest applies to one object.
Matches(o, p) ==
  IF o.type = "annotation"
  THEN /\ o.width # 0 /\ o.height # 0
       /\ p[1] >= o.position[1] /\ p[1] <= o.position[1] + o.width
       /\ p[2] >= o.position[2] - o.height /\ p[2] <= o.position[2]
  ELSE /\ o.type = "highlight"
       /\ \E i \in 1..Len(o.points) :
            LET dx == o.points[i][1] - p[1]
                dy == o.points[i][2] - p[2]
                r2 == o.strokeWidth + 2 * HIT_TOLERANCE
            IN 4 * (dx * dx + dy * dy) < r2 * r2

hitTestForward(W, a, p) ==
  LET s == W.arrs[a]
      F[i \in 1..Len(s) + 1] ==
        IF i = Len(s) + 1 THEN 0
        ELSE IF Matches(W.objs[s[i]], p) THEN s[i] ELSE F[i+1]
  IN F[1]

\* hitTest: the reference of the hit object, 0 for null.
hitTest(W, a, p) ==
  LET s == W.arrs[a]
      F[i \in 0..Len(s)] ==
        IF i = 0 THEN 0
        ELSE IF Matches(W.objs[s[i]], p) THEN s[i] ELSE F[i-1]
  IN F[Len(s)]

\* ------------------------------------------------------------ scene updates
\* The references of the objects of the scene.
SceneRefs(W) == { W.arrs[W.scene][j] : j \in 1..Len(W.arrs[W.scene]) }

\* prev.map(...): a new array; new gives, for the reference of each object
\* the callback replaces, the value of the new object that replaces it.
MapScene(W, new) ==
  LET s == W.arrs[W.scene]
      ch == SelectSeq(s, LAMBDA r : r \in DOMAIN new)
      A == NewObjects(W, [ k \in 1..Len(ch) |-> new[ch[k]] ])
      refs == [ j \in 1..Len(s) |->
                 IF s[j] \in DOMAIN new
                 THEN Len(W.objs) + IndexOf(ch, s[j]) ELSE s[j] ]
      B == NewArray(A, refs)
  IN [ B EXCEPT !.scene = LastArray(B) ]

\* prev.filter(...): a new array over the objects whose references are in keep.
FilterScene(W, keep) ==
  LET A == NewArray(W, SelectSeq(W.arrs[W.scene], LAMBDA r : r \in keep))
  IN [ A EXCEPT !.scene = LastArray(A) ]

\* [...prev, o]: a new array with the new object o at the end.
AppendScene(W, o) ==
  LET A == NewObjects(W, << o >>)
      B == NewArray(A, Append(W.arrs[W.scene], Len(A.objs)))
  IN [ B EXCEPT !.scene = LastArray(B) ]

erase(W, p) ==
  LET hit == hitTest(W, W.scene, p)
  IN IF hit # 0
     THEN FilterScene(W, { r \in SceneRefs(W) : W.objs[r].id # W.objs[hit].id })
     ELSE W

\* ------------------------------------------------------------ steps
\* The handler has changed the world to W1: render, run the effects, collect
\* the heap.  The guards keep the model within its bounds.
CommitFrom(W0, W1, elems) ==
  \E C \in { Canon(Render(W0, W1, elems)) } :
     /\ Len(C.hist) <= MaxHist
     /\ Len(C.pend) <= MaxPending
     /\ Len(C.reqs) <= MaxRequests
     /\ Len(C.adds) <= MaxAdds
     /\ Len(C.arrs[C.scene]) <= MaxObjects
     /\ \A r \in 1..Len(C.objs) : Len(C.objs[r].points) <= MaxPoints
     /\ objs' = C.objs
     /\ arrs' = C.arrs
     /\ canvasObjects' = C.scene
     /\ history' = C.hist
     /\ historyPointer' = C.ptr
     /\ pending' = C.pend
     /\ sessionHistory' = C.sess
     /\ editingAnnotation' = C.editing
     /\ baseImage' = C.base
     /\ requests' = C.reqs
     /\ elementImageUrls' = C.elemUrls
     /\ apiKey' = C.apiKey
     /\ isApiKeyDialogOpen' = C.keyDialog
     /\ elementAdds' = C.adds

Commit(W1, elems) == CommitFrom(World, W1, elems)

\* The object values of the scene and of the history entries.
SceneContent == Content(World, canvasObjects)
HistContent == [ i \in 1..Len(history) |-> Content(World, history[i]) ]

\* ------------------------------------------------------------ gestures followed
\* gesture follows one gesture from its pointer-down to the step after its
\* commit, as long as only pointer events of the canvas and image onload
\* callbacks happen: before is the scene content at the pointer-down, fresh
\* tells that the scene and every history entry were empty then, samples
\* holds the points of its pointer events.  It is read by no action.
NoGesture == [ state |-> "none", before |-> << >>, fresh |-> FALSE, samples |-> << >> ]

BeginGesture(p) ==
  [ state |-> "open", before |-> SceneContent,
    fresh |-> /\ SceneContent = << >>
              /\ \A i \in 1..Len(history) : HistContent[i] = << >>,
    samples |-> << p >> ]

Committed ==
  [ state |-> "committed", before |-> SceneContent, fresh |-> FALSE, samples |-> << >> ]

Interrupt == gesture' = NoGesture

Init ==
  \* after mount: useState([]) and the first run of the listener effect
  /\ objs = << >>
  /\ arrs = << << >>, << >> >>
  /\ canvasObjects = 1
  /\ history = << 2 >>
  /\ historyPointer = 0
  /\ pending = << >>
  /\ sessionHistory = << >>
  /\ activeHistoryId = 0
  /\ baseImage = NoImage
  /\ confirmingNewImage = NoImage
  /\ editingAnnotation = 0
  /\ tool = "highlight"
  /\ isDrawing = FALSE
  /\ isDragging = FALSE
  /\ dragOffset = NoPoint
  /\ lastClickRecent = FALSE
  /\ nextId = 1
  /\ sameMs = FALSE
  /\ isLoading = FALSE
  /\ generatedImage = NoImage
  /\ requests = << >>
  /\ toast = "none"
  /\ elementImageUrls = NoElements
  /\ apiKey = NoKey
  /\ isApiKeyDialogOpen = FALSE
  /\ elementAdds = << >>
  /\ gestureStroke = 0
  /\ gesture = NoGesture

\* No modal dialog is open: neither the confirmation of a new base image nor
\* the dialog that shows a generated image, nor the dialog of the API key.
NoDialog ==
  /\ confirmingNewImage = NoImage
  /\ generatedImage = NoImage
  /\ ~isApiKeyDialogOpen

\* s without its element i.
RemoveAt(s, i) == SubSeq(s, 1, i - 1) \o SubSeq(s, i + 1, Len(s))

\* ------------------------------------------------------------ sessions
loadStateFromHistoryItem(W, item) ==
  [ W EXCEPT !.base = item.baseImage, !.scene = item.annotations,
             !.elemUrls = item.elementImageUrls ]

\* `session-${Date.now()}` of createNewHistoryItem: an id greater than the id
\* of every session there is.
NewSessionId(W) ==
  LET F[i \in 0..Len(W.sess)] ==
        IF i = 0 THEN 0
        ELSE LET prev == F[i-1]
             IN IF W.sess[i].id > prev THEN W.sess[i].id ELSE prev
  IN F[Len(W.sess)] + 1

startNewSession(W, img) ==
  LET A == NewArray(W, << >>)
      item == [ id |-> NewSessionId(W), baseImage |-> img, annotations |-> LastArray(A),
                elementImageUrls |-> NoElements ]
  IN loadStateFromHistoryItem([ A EXCEPT !.sess = Append(@, item) ], item)

\* handleBaseImageUpload / handlePaste of a base image, once the file is read
\* and resized.
handleBaseImageUpload(img) ==
  /\ NoDialog
  /\ IF baseImage # NoImage
     THEN /\ confirmingNewImage' = img
          /\ Commit(World, FALSE)
          /\ UNCHANGED activeHistoryId
     ELSE /\ NewSessionId(World) <= MaxSessions
          /\ Commit(startNewSession(World, img), TRUE)
          /\ activeHistoryId' = NewSessionId(World)
          /\ UNCHANGED confirmingNewImage
  /\ Interrupt
  /\ UNCHANGED << isLoading, generatedImage, toast, sameMs,
                  tool, isDrawing, isDragging, dragOffset, lastClickRecent, nextId,
                  gestureStroke >>

handleConfirmNewImage(confirmed) ==
  /\ confirmingNewImage # NoImage
  /\ IF confirmed
     THEN /\ NewSessionId(World) <= MaxSessions
          /\ Commit(startNewSession(World, confirmingNewImage), TRUE)
          /\ activeHistoryId' = NewSessionId(World)
     ELSE /\ Commit(World, FALSE)
          /\ UNCHANGED activeHistoryId
  /\ confirmingNewImage' = NoImage
  /\ Interrupt
  /\ UNCHANGED << isLoading, generatedImage, toast, sameMs,
                  tool, isDrawing, isDragging, dragOffset, lastClickRecent, nextId,
                  gestureStroke >>

\* A click on an item of the history sidebar.
LoadHistoryItem(i) ==
  /\ NoDialog
  /\ i \in 1..Len(sessionHistory)
  /\ Commit(loadStateFromHistoryItem(World, sessionHistory[i]), TRUE)
  /\ activeHistoryId' = sessionHistory[i].id
  /\ Interrupt
  /\ UNCHANGED << isLoading, generatedImage, toast, sameMs,
                  confirmingNewImage, tool, isDrawing, isDragging, dragOffset,
                  lastClickRecent, nextId, gestureStroke >>

handleNewSession ==
  /\ NoDialog
  /\ LET A == NewArray(World, << >>)
     IN Commit([ A EXCEPT !.base = NoImage, !.scene = LastArray(A),
                          !.elemUrls = NoElements ], TRUE)
  /\ activeHistoryId' = 0
  /\ Interrupt
  /\ UNCHANGED << isLoading, generatedImage, toast, sameMs,
                  confirmingNewImage, tool, isDrawing, isDragging, dragOffset,
                  lastClickRecent, nextId, gestureStroke >>

\* The delete that leaves activeHistoryId as it is.
handleDeleteHistoryItemOnly(idToDelete) ==
  /\ NoDialog
  /\ \E k \in 1..Len(sessionHistory) : sessionHistory[k].id = idToDelete
  /\ Commit([ World EXCEPT !.sess = SelectSeq(@, LAMBDA item : item.id # idToDelete) ],
            FALSE)
  /\ Interrupt
  /\ UNCHANGED << isLoading, generatedImage, toast, sameMs, activeHistoryId,
                  confirmingNewImage, tool, isDrawing, isDragging, dragOffset,
                  lastClickRecent, nextId, gestureStroke >>

\* handleDeleteHistoryItem(idToDelete), the delete button of an item of the
\* history list.
handleDeleteHistoryItem(idToDelete) ==
  /\ NoDialog
  /\ \E k \in 1..Len(sessionHistory) : sessionHistory[k].id = idToDelete
  /\ LET newHistory == SelectSeq(sessionHistory, LAMBDA item : item.id # idToDelete)
         A == [ World EXCEPT !.sess = newHistory ]
         B == NewArray(A, << >>)
     IN IF activeHistoryId # idToDelete
        THEN /\ Commit(A, FALSE)
             /\ UNCHANGED activeHistoryId
        ELSE IF newHistory # << >>
        THEN /\ Commit(loadStateFromHistoryItem(A, newHistory[Len(newHistory)]), TRUE)
             /\ activeHistoryId' = newHistory[Len(newHistory)].id
        ELSE /\ Commit([ B EXCEPT !.base = NoImage, !.scene = LastArray(B),
                                  !.elemUrls = NoElements ], TRUE)
             /\ activeHistoryId' = 0
  /\ Interrupt
  /\ UNCHANGED << isLoading, generatedImage, toast, sameMs,
                  confirmingNewImage, tool, isDrawing, isDragging, dragOffset,
                  lastClickRecent, nextId, gestureStroke >>

\* ------------------------------------------------------------ element images
\* addElementImage, once the file is read and resized: the first empty slot
\* takes the image.
addElementImage(img) ==
  /\ NoDialog
  /\ IF \A i \in 1..3 : elementImageUrls[i] # NoImage
     THEN /\ toast' = "Cannot add more elements"
          /\ Commit(World, FALSE)
     ELSE /\ LET emptyIndex == CHOOSE i \in 1..3 :
                                 /\ elementImageUrls[i] = NoImage
                                 /\ \A j \in 1..(i - 1) : elementImageUrls[j] # NoImage
             IN Commit([ World EXCEPT !.elemUrls[emptyIndex] = img ], TRUE)
          /\ toast' = "Element added"
  /\ Interrupt
  /\ UNCHANGED << isLoading, generatedImage, sameMs, activeHistoryId, confirmingNewImage,
                  tool, isDrawing, isDragging, dragOffset, lastClickRecent, nextId,
                  gestureStroke >>

\* addElementImage(file) up to its first await: emptyIndex is found in the
\* elementImageUrls of the render that created the callback, and the call
\* waits for readFileAsDataURL and resizeImage with that index and that
\* array.
addElementImageBegin(img) ==
  /\ NoDialog
  /\ IF \A i \in 1..3 : elementImageUrls[i] # NoImage
     THEN /\ toast' = "Cannot add more elements"
          /\ Commit(World, FALSE)
     ELSE /\ LET emptyIndex == CHOOSE i \in 1..3 :
                                 /\ elementImageUrls[i] = NoImage
                                 /\ \A j \in 1..(i - 1) : elementImageUrls[j] # NoImage
             IN Commit([ World EXCEPT !.adds =
                          Append(@, [ img |-> img, emptyIndex |-> emptyIndex,
                                      urls |-> elementImageUrls ]) ], FALSE)
          /\ UNCHANGED toast
  /\ Interrupt
  /\ UNCHANGED << isLoading, generatedImage, sameMs, activeHistoryId, confirmingNewImage,
                  tool, isDrawing, isDragging, dragOffset, lastClickRecent, nextId,
                  gestureStroke >>

\* The rest of call i of addElementImage, after resizeImage has returned:
\* newUrls is a copy of the array the call started with, with the image at
\* emptyIndex, and setElementImageUrls(newUrls) replaces the state.
addElementImageEnd(i) ==
  /\ i \in 1..Len(elementAdds)
  /\ Commit([ World EXCEPT
               !.elemUrls = [ elementAdds[i].urls EXCEPT
                                ![elementAdds[i].emptyIndex] = elementAdds[i].img ],
               !.adds = RemoveAt(@, i) ], TRUE)
  /\ toast' = "Element added"
  /\ gesture' = IF gesture.state = "open" THEN gesture ELSE NoGesture
  /\ UNCHANGED << isLoading, generatedImage, sameMs, activeHistoryId, confirmingNewImage,
                  tool, isDrawing, isDragging, dragOffset, lastClickRecent, nextId,
                  gestureStroke >>

\* handleRemoveElementImage(index): the slot is spliced out and an empty one
\* pushed at the end.
handleRemoveElementImage(index) ==
  /\ NoDialog
  /\ index \in 1..3
  /\ elementImageUrls[index] # NoImage
  /\ Commit([ World EXCEPT !.elemUrls =
               Append(SubSeq(@, 1, index - 1) \o SubSeq(@, index + 1, 3), NoImage) ], TRUE)
  /\ Interrupt
  /\ UNCHANGED << isLoading, generatedImage, toast, sameMs, activeHistoryId,
                  confirmingNewImage, tool, isDrawing, isDragging, dragOffset,
                  lastClickRecent, nextId, gestureStroke >>

\* ------------------------------------------------------------ local storage
\* What the save effect has written for session i: the active session with
\* the objects of the scene, the others as sessionHistory has them, all as
\* JSON.stringify writes them and JSON.parse reads them.
SavedAnnotations(i) ==
  LET a == IF sessionHistory[i].id = activeHistoryId
           THEN canvasObjects ELSE sessionHistory[i].annotations
  IN [ j \in 1..Len(arrs[a]) |-> JsonObject(objs[arrs[a][j]]) ]

\* The world of a newly mounted editor, as in Init.
Mounted ==
  [ objs |-> << >>, arrs |-> << << >>, << >> >>, scene |-> 1, hist |-> << 2 >>,
    ptr |-> 0, pend |-> << >>, sess |-> << >>, editing |-> 0, base |-> NoImage,
    reqs |-> << >>, elemUrls |-> NoElements, apiKey |-> NoKey, keyDialog |-> FALSE,
    adds |-> << >> ]

\* setSessionHistory(history) of the mount effect: the parsed sessions are
\* new objects in new arrays.
ParsedSessions ==
  LET F[i \in 0..Len(sessionHistory)] ==
        IF i = 0 THEN Mounted
        ELSE LET prev == F[i-1]
                 vals == SavedAnnotations(i)
                 A == NewObjects(prev, vals)
                 B == NewArray(A, [ j \in 1..Len(vals) |-> Len(prev.objs) + j ])
             IN [ B EXCEPT !.sess = Append(@,
                    [ sessionHistory[i] EXCEPT
                        !.annotations = LastArray(B),
                        !.elementImageUrls = IF sessionHistory[i].id = activeHistoryId
                                             THEN elementImageUrls ELSE @ ]) ]
  IN F[Len(sessionHistory)]

\* The page is reloaded while a session is active, so that the save effect
\* of the last render has written the present state: the editor mounts, and
\* the mount effect loads the stored sessions and the active one of them.
Reload ==
  /\ \E i \in 1..Len(sessionHistory) : sessionHistory[i].id = activeHistoryId
  /\ LET W == ParsedSessions
         k == CHOOSE i \in 1..Len(W.sess) :
                /\ W.sess[i].id = activeHistoryId
                /\ \A j \in 1..(i - 1) : W.sess[j].id # activeHistoryId
     IN /\ CommitFrom(Mounted,
                      [ loadStateFromHistoryItem(W, W.sess[k]) EXCEPT !.apiKey = apiKey ],
                      TRUE)
        /\ activeHistoryId' = W.sess[k].id
  /\ confirmingNewImage' = NoImage
  /\ tool' = "highlight"
  /\ isDrawing' = FALSE
  /\ isDragging' = FALSE
  /\ dragOffset' = NoPoint
  /\ lastClickRecent' = FALSE
  /\ sameMs' = FALSE
  /\ isLoading' = FALSE
  /\ generatedImage' = NoImage
  /\ toast' = "none"
  /\ gestureStroke' = 0
  /\ Interrupt
  /\ UNCHANGED nextId

\* ------------------------------------------------------------ toolbar
SetTool(t) ==
  /\ NoDialog
  /\ t # tool
  /\ tool' = t
  /\ Commit(World, FALSE)
  /\ Interrupt
  /\ UNCHANGED << isLoading, generatedImage, toast, sameMs,
                  activeHistoryId, confirmingNewImage, isDrawing, isDragging,
                  dragOffset, lastClickRecent, nextId, gestureStroke >>

Undo ==
  /\ NoDialog
  /\ Commit(undo(World), FALSE)
  /\ Interrupt
  /\ UNCHANGED << isLoading, generatedImage, toast, sameMs,
                  activeHistoryId, confirmingNewImage, tool, isDrawing, isDragging,
                  dragOffset, lastClickRecent, nextId, gestureStroke >>

Redo ==
  /\ NoDialog
  /\ Commit(redo(World), FALSE)
  /\ Interrupt
  /\ UNCHANGED << isLoading, generatedImage, toast, sameMs,
                  activeHistoryId, confirmingNewImage, tool, isDrawing, isDragging,
                  dragOffset, lastClickRecent, nextId, gestureStroke >>

Clear ==
  /\ NoDialog
  /\ Commit(handleClear(World), FALSE)
  /\ Interrupt
  /\ UNCHANGED << isLoading, generatedImage, toast, sameMs,
                  activeHistoryId, confirmingNewImage, tool, isDrawing, isDragging,
                  dragOffset, lastClickRecent, nextId, gestureStroke >>

\* ------------------------------------------------------------ the canvas
CanvasReady == baseImage # NoImage /\ NoDialog

\* Date.now(): the value of the clock, which is the value of the last call
\* while no millisecond has passed since.
DateNow == IF sameMs THEN nextId - 1 ELSE nextId

\* handleCanvasMouseDown, tool annotate
MouseDownAnnotate(p) ==
  /\ CanvasReady
  /\ tool = "annotate"
  /\ DateNow <= MaxIds
  /\ LET A == NewObjects(World, << Annotation(DateNow, "", p) >>)
     IN Commit([ A EXCEPT !.editing = Len(A.objs) ], FALSE)
  /\ nextId' = DateNow + 1
  /\ sameMs' = FALSE
  /\ gestureStroke' = 0
  /\ Interrupt
  /\ UNCHANGED << isLoading, generatedImage, toast,
                  activeHistoryId, confirmingNewImage, tool, isDrawing, isDragging,
                  dragOffset, lastClickRecent >>

\* handleCanvasMouseDown, tool select
MouseDownSelect(p) ==
  /\ CanvasReady
  /\ tool = "select"
  /\ LET hit == hitTest(World, canvasObjects, p)
         hitId == IF hit = 0 THEN 0 ELSE objs[hit].id
         isSelected(o) == IF hit # 0 /\ o.id = hitId THEN "true" ELSE "false"
     IN IF lastClickRecent /\ hit # 0 /\ objs[hit].type = "annotation"
        THEN /\ Commit([ MapScene(World,
                                  [ r \in { q \in SceneRefs(World) : objs[q].id # hitId }
                                      |-> [ objs[r] EXCEPT !.selected = "false" ] ])
                         EXCEPT !.editing = hit ], FALSE)
             /\ UNCHANGED << isDragging, dragOffset >>
        ELSE /\ Commit(MapScene(World,
                                [ r \in { q \in SceneRefs(World) :
                                            objs[q].selected # isSelected(objs[q]) }
                                    |-> [ objs[r] EXCEPT !.selected = isSelected(objs[r]) ] ]),
                        FALSE)
             /\ IF hit # 0 /\ objs[hit].type = "annotation"
                THEN /\ isDragging' = TRUE
                     /\ dragOffset' = << p[1] - objs[hit].position[1],
                                         p[2] - objs[hit].position[2] >>
                ELSE UNCHANGED << isDragging, dragOffset >>
  /\ lastClickRecent' = TRUE
  /\ gestureStroke' = 0
  /\ Interrupt
  /\ UNCHANGED << isLoading, generatedImage, toast, sameMs,
                  activeHistoryId, confirmingNewImage, tool, isDrawing, nextId >>

\* handleCanvasMouseDown, tool highlight
MouseDownHighlight(p) ==
  /\ CanvasReady
  /\ tool = "highlight"
  /\ DateNow <= MaxIds
  /\ Commit(AppendScene(World, Highlight(DateNow, p)), FALSE)
  /\ nextId' = DateNow + 1
  /\ sameMs' = FALSE
  /\ isDrawing' = TRUE
  /\ isDragging' = FALSE
  /\ dragOffset' = NoPoint
  /\ lastClickRecent' = FALSE
  /\ gestureStroke' = DateNow
  /\ gesture' = BeginGesture(p)
  /\ UNCHANGED << isLoading, generatedImage, toast,
                  activeHistoryId, confirmingNewImage, tool >>

\* handleCanvasMouseDown, tool erase
MouseDownErase(p) ==
  /\ CanvasReady
  /\ tool = "erase"
  /\ Commit(erase(World, p), FALSE)
  /\ isDrawing' = TRUE
  /\ isDragging' = FALSE
  /\ dragOffset' = NoPoint
  /\ lastClickRecent' = FALSE
  /\ gestureStroke' = 0
  /\ gesture' = BeginGesture(p)
  /\ UNCHANGED << isLoading, generatedImage, toast, sameMs,
                  activeHistoryId, confirmingNewImage, tool, nextId >>

handleCanvasMouseDown(p) ==
  \/ MouseDownAnnotate(p)
  \/ MouseDownSelect(p)
  \/ MouseDownHighlight(p)
  \/ MouseDownErase(p)

\* The highlight branch of handleCanvasMouseMove: a new array over the same
\* objects, the last of which gets the point pushed in place.
extendLastHighlight(W, p) ==
  LET s == W.arrs[W.scene]
      A == NewArray(W, s)
      B == [ A EXCEPT !.scene = LastArray(A) ]
      last == IF Len(s) = 0 THEN 0 ELSE s[Len(s)]
  IN IF last # 0 /\ W.objs[last].type = "highlight"
     THEN [ B EXCEPT !.objs[last].points = Append(@, p) ]
     ELSE B

handleCanvasMouseMove(p) ==
  /\ CanvasReady
  /\ isDrawing \/ isDragging
  /\ IF isDragging /\ tool = "select"
     THEN Commit(MapScene(World,
                   [ r \in { q \in SceneRefs(World) :
                               /\ objs[q].selected = "true"
                               /\ objs[q].type = "annotation"
                               /\ dragOffset # NoPoint }
                       |-> [ objs[r] EXCEPT !.position =
                               << p[1] - dragOffset[1], p[2] - dragOffset[2] >> ] ]),
                 FALSE)
     ELSE IF tool = "highlight" /\ isDrawing
     THEN Commit(extendLastHighlight(World, p), FALSE)
     ELSE IF tool = "erase" /\ isDrawing
     THEN Commit(erase(World, p), FALSE)
     ELSE Commit(World, FALSE)
  /\ gesture' = IF gesture.state = "open"
                THEN [ gesture EXCEPT !.samples = IF Len(@) < MaxPoints
                                                  THEN Append(@, p) ELSE @ ]
                ELSE NoGesture
  /\ UNCHANGED << isLoading, generatedImage, toast, sameMs,
                  activeHistoryId, confirmingNewImage, tool, isDrawing, isDragging,
                  dragOffset, lastClickRecent, nextId, gestureStroke >>

\* A pointer-move that extends the last stroke although no button is down.
handleCanvasMouseMoveIdleDraws(p) ==
  /\ CanvasReady
  /\ ~isDrawing /\ ~isDragging
  /\ IF tool = "highlight"
     THEN Commit(extendLastHighlight(World, p), FALSE)
     ELSE Commit(World, FALSE)
  /\ Interrupt
  /\ UNCHANGED << isLoading, generatedImage, toast, sameMs,
                  activeHistoryId, confirmingNewImage, tool, isDrawing, isDragging,
                  dragOffset, lastClickRecent, nextId, gestureStroke >>

\* handleCanvasMouseMove with neither isDrawing nor isDragging set: the
\* handler returns before it reads the coordinates, no state is set and
\* nothing is rendered.
handleCanvasMouseMoveIdle(p) ==
  /\ CanvasReady
  /\ ~isDrawing /\ ~isDragging
  /\ UNCHANGED vars

\* onMouseUp and onMouseLeave
handleCanvasMouseUp ==
  /\ CanvasReady
  /\ IF isDrawing \/ isDragging
     THEN Commit(saveHistory(World, canvasObjects), FALSE)
     ELSE Commit(World, FALSE)
  /\ isDrawing' = FALSE
  /\ isDragging' = FALSE
  /\ gestureStroke' = 0
  /\ gesture' = IF gesture.state = "open" /\ (isDrawing \/ isDragging)
                THEN [ gesture EXCEPT !.state = "committed" ]
                ELSE NoGesture
  /\ UNCHANGED << isLoading, generatedImage, toast, sameMs,
                  activeHistoryId, confirmingNewImage, tool, dragOffset,
                  lastClickRecent, nextId >>

\* ------------------------------------------------------------ annotations
\* handleSaveAnnotation(text, id, newPosition), called by the TextAnnotator
\* with a non-empty trimmed text and the id of the annotation it edits.
\* saveHistory is the one of the render the handler belongs to: it copies
\* the canvasObjects of that render.
handleSaveAnnotation(text, newPosition) ==
  /\ CanvasReady
  /\ editingAnnotation # 0
  /\ LET id == objs[editingAnnotation].id
         existing == \E j \in 1..Len(arrs[canvasObjects]) :
                        objs[arrs[canvasObjects][j]].id = id
         A == IF existing
              THEN MapScene(World,
                            [ r \in { q \in SceneRefs(World) : objs[q].id = id }
                                |-> [ objs[r] EXCEPT !.text = text, !.position = newPosition,
                                                     !.width = 0, !.height = 0 ] ])
              ELSE AppendScene(World, Annotation(id, text, newPosition))
         B == saveHistory(A, canvasObjects)
     IN Commit([ B EXCEPT !.editing = 0 ], FALSE)
  /\ gesture' = Committed
  /\ UNCHANGED << isLoading, generatedImage, toast, sameMs,
                  activeHistoryId, confirmingNewImage, tool, isDrawing, isDragging,
                  dragOffset, lastClickRecent, nextId, gestureStroke >>

\* ------------------------------------------------------------ the text editor
\* The layout the TextAnnotator reads with getBoundingClientRect: the canvas
\* is shown RectWidth wide (the image is square, so as high), its parent
\* starts at <<ParentLeft, ParentTop>> of the viewport.
RectWidth == 640
ParentLeft == 16
ParentTop == 24

\* JavaScript numbers are binary floating point: the result of a product is
\* the representable number nearest to it.  The model keeps the rounding,
\* with the integers as its representable numbers: n / d, rounded.  For a
\* canvas of 1000 shown 640 wide, the coordinates 10 and 15 come back changed
\* by the two conversions and 20 comes back unchanged, in the model as in
\* double arithmetic.
Round(n, d) == (2 * n + d) \div (2 * d)

\* TextAnnotator.getUiPosition, for an annotation at pos
getUiPosition(pos) ==
  << ParentLeft + RectWidth \div 2
       + Round((pos[1] - CanvasWidth \div 2) * RectWidth, CanvasWidth),
     ParentTop + RectWidth \div 2
       + Round((pos[2] - CanvasWidth \div 2) * RectWidth, CanvasWidth) >>

\* TextAnnotator.getCanvasCoordinatesFromUIPosition
getCanvasCoordinatesFromUIPosition(ui) ==
  << Round((ui[1] - ParentLeft - RectWidth \div 2) * CanvasWidth, RectWidth)
       + CanvasWidth \div 2,
     Round((ui[2] - ParentTop - RectWidth \div 2) * CanvasWidth, RectWidth)
       + CanvasWidth \div 2 >>

\* TextAnnotator.handleSave with a non-empty text (Enter, or the save button)
\* while the overlay is where getUiPosition put it when it opened.
TextAnnotatorSave(text) ==
  /\ editingAnnotation # 0
  /\ handleSaveAnnotation(text,
        getCanvasCoordinatesFromUIPosition(getUiPosition(objs[editingAnnotation].position)))

\* canvas.width / rect.width, times a: the division by a rendered width of 0
\* gives Infinity, and the product with it is Infinity, -Infinity or NaN.
ScaleToCanvas(a, rectWidth) ==
  IF rectWidth # 0 THEN Round(a * CanvasWidth, rectWidth)
  ELSE IF a > 0 THEN Infinity
  ELSE IF a < 0 THEN 0 - Infinity
  ELSE NaN

\* x + y of JavaScript
Plus(x, y) == IF IsFinite(x) /\ IsFinite(y) THEN x + y ELSE IF IsFinite(x) THEN y ELSE x

\* TextAnnotator.getCanvasCoordinatesFromUIPosition when the bounding
\* rectangle of the canvas is rectWidth wide and high.
getCanvasCoordinatesFromUIPositionAt(ui, rectWidth) ==
  << Plus(ScaleToCanvas(ui[1] - ParentLeft - rectWidth \div 2, rectWidth), CanvasWidth \div 2),
     Plus(ScaleToCanvas(ui[2] - ParentTop - rectWidth \div 2, rectWidth), CanvasWidth \div 2) >>

\* TextAnnotator.handleSave with a non-empty text while the canvas has no
\* rendered size (its container has collapsed since the overlay opened): the
\* overlay is still where getUiPosition put it.
TextAnnotatorSaveCollapsed(text) ==
  /\ editingAnnotation # 0
  /\ handleSaveAnnotation(text,
        getCanvasCoordinatesFromUIPositionAt(getUiPosition(objs[editingAnnotation].position), 0))

\* onCancel: Escape, the cancel button, or a save with an empty text
handleCancelAnnotation ==
  /\ CanvasReady
  /\ editingAnnotation # 0
  /\ Commit([ World EXCEPT !.editing = 0 ], FALSE)
  /\ Interrupt
  /\ UNCHANGED << isLoading, generatedImage, toast, sameMs,
                  activeHistoryId, confirmingNewImage, tool, isDrawing, isDragging,
                  dragOffset, lastClickRecent, nextId, gestureStroke >>

\* handleKeyDown with Delete or Backspace
handleKeyDown ==
  /\ editingAnnotation = 0
  /\ \E j \in 1..Len(arrs[canvasObjects]) : objs[arrs[canvasObjects][j]].selected = "true"
  /\ Commit(saveHistory(FilterScene(World, { r \in SceneRefs(World) :
                                                 objs[r].selected # "true" }),
                        canvasObjects),
            FALSE)
  /\ gesture' = Committed
  /\ UNCHANGED << isLoading, generatedImage, toast, sameMs,
                  activeHistoryId, confirmingNewImage, tool, isDrawing, isDragging,
                  dragOffset, lastClickRecent, nextId, gestureStroke >>

\* ------------------------------------------------------------ callbacks
\* img.onload of the oldest pending image load: redrawCanvas and saveHistory
\* of the render that started it.
ImageLoaded ==
  /\ pending # << >>
  /\ LET c == Head(pending)
         A == [ World EXCEPT !.pend = Tail(@) ]
         B == IF baseImage # NoImage THEN redrawCanvas(A, c.arr, c.editing) ELSE A
     IN Commit(saveHistory(B, c.arr), FALSE)
  /\ gesture' = IF gesture.state = "open" THEN gesture ELSE NoGesture
  /\ UNCHANGED << isLoading, generatedImage, toast, sameMs,
                  activeHistoryId, confirmingNewImage, tool, isDrawing, isDragging,
                  dragOffset, lastClickRecent, nextId, gestureStroke >>

\* ------------------------------------------------------------ generation
\* What the flattening draws of an object: the colour, the width and the
\* points of a stroke; the font size, the colour, the text and the position
\* of an annotation.
\* ctx.globalAlpha of the flattening, in percent: 0.5 for the strokes, 1.0
\* for the annotations.
FlattenAlpha(o) == IF o.type = "highlight" THEN 50 ELSE 100

Drawn(o) ==
  [ alpha |-> FlattenAlpha(o) ]
    @@ [ o EXCEPT !.id = 0, !.width = 0, !.height = 0, !.selected = "undefined" ]

\* The drawing of the objects refs as they are in the heap of W.
Flattened(W, refs) == [ k \in 1..Len(refs) |-> Drawn(W.objs[refs[k]]) ]


\* handleGenerate up to its first await.  The button is disabled while
\* isLoading; Ctrl/Cmd+Enter in the prompt box calls handleGenerate whatever
\* isLoading is.  highlights and annotations are new arrays over the objects
\* of the scene.  With nothing to flatten the first await is the call of
\* generateImageEdit; otherwise it is the load of the base image.  atTrigger
\* records what the scene would draw at this moment; no action reads it.
handleGenerate(viaButton, customPrompt) ==
  /\ NoDialog
  /\ baseImage # NoImage
  /\ viaButton => ~isLoading
  /\ LET s == arrs[canvasObjects]
         refs == SelectSeq(s, LAMBDA r : objs[r].type = "highlight")
                   \o SelectSeq(s, LAMBDA r : objs[r].type = "annotation")
         req == [ stage |-> IF refs = << >> THEN "sent" ELSE "flattening",
                  refs |-> refs, base |-> baseImage, prompt |-> customPrompt,
                  annotated |-> << >>, atTrigger |-> Flattened(World, refs) ]
     IN IF refs = << >> /\ customPrompt = ""
        THEN /\ toast' = "Nothing to Generate"
             /\ Commit(World, FALSE)
             /\ UNCHANGED isLoading
        ELSE /\ isLoading' = TRUE
             /\ Commit([ World EXCEPT !.reqs = Append(@, req) ], FALSE)
             /\ UNCHANGED toast
  /\ Interrupt
  /\ UNCHANGED << generatedImage, sameMs, activeHistoryId, confirmingNewImage, tool,
                  isDrawing, isDragging, dragOffset, lastClickRecent, nextId,
                  gestureStroke >>

\* baseImg.onload of request i: the captured objects are drawn as they are
\* now, and generateImageEdit is called.
BaseImgLoaded(i) ==
  /\ i \in 1..Len(requests)
  /\ requests[i].stage = "flattening"
  /\ Commit([ World EXCEPT !.reqs[i] =
                [ @ EXCEPT !.stage = "sent",
                           !.annotated = Flattened(World, requests[i].refs) ] ], FALSE)
  /\ gesture' = IF gesture.state = "open" THEN gesture ELSE NoGesture
  /\ UNCHANGED << isLoading, generatedImage, toast, sameMs, activeHistoryId,
                  confirmingNewImage, tool, isDrawing, isDragging, dragOffset,
                  lastClickRecent, nextId, gestureStroke >>

\* The base image of request i does not load.  baseImg has an onload
\* handler and no onerror handler: the promise handleGenerate awaits is never
\* settled, and neither its catch nor its finally branch runs.
BaseImgError(i) ==
  /\ i \in 1..Len(requests)
  /\ requests[i].stage = "flattening"
  /\ Commit([ World EXCEPT !.reqs[i].stage = "abandoned" ], FALSE)
  /\ gesture' = IF gesture.state = "open" THEN gesture ELSE NoGesture
  /\ UNCHANGED << isLoading, generatedImage, toast, sameMs, activeHistoryId,
                  confirmingNewImage, tool, isDrawing, isDragging, dragOffset,
                  lastClickRecent, nextId, gestureStroke >>

\* baseImg.onload of request i with getContext('2d') returning null:
\* handleGenerate throws, its catch branch shows the toast and its finally
\* branch resets isLoading.
BaseImgLoadedNoContext(i) ==
  /\ i \in 1..Len(requests)
  /\ requests[i].stage = "flattening"
  /\ toast' = "Generation Failed"
  /\ isLoading' = FALSE
  /\ Commit([ World EXCEPT !.reqs = RemoveAt(@, i) ], FALSE)
  /\ gesture' = IF gesture.state = "open" THEN gesture ELSE NoGesture
  /\ UNCHANGED << generatedImage, sameMs, activeHistoryId, confirmingNewImage, tool,
                  isDrawing, isDragging, dragOffset, lastClickRecent, nextId,
                  gestureStroke >>

\* generateImageEdit of request i returns an image.
GenerateSucceeds(i) ==
  /\ i \in 1..Len(requests)
  /\ requests[i].stage = "sent"
  /\ generatedImage' = EditedImage
  /\ isLoading' = FALSE
  /\ Commit([ World EXCEPT !.reqs = RemoveAt(@, i) ], FALSE)
  /\ gesture' = IF gesture.state = "open" THEN gesture ELSE NoGesture
  /\ UNCHANGED << toast, sameMs, activeHistoryId, confirmingNewImage, tool, isDrawing,
                  isDragging, dragOffset, lastClickRecent, nextId, gestureStroke >>

\* The catch branch with isLoading left as it is.
GenerateFailsKeepsLoading(i) ==
  /\ i \in 1..Len(requests)
  /\ requests[i].stage = "sent"
  /\ toast' = "Generation Failed"
  /\ Commit([ World EXCEPT !.reqs = RemoveAt(@, i) ], FALSE)
  /\ gesture' = IF gesture.state = "open" THEN gesture ELSE NoGesture
  /\ UNCHANGED << isLoading, generatedImage, sameMs, activeHistoryId, confirmingNewImage,
                  tool, isDrawing, isDragging, dragOffset, lastClickRecent, nextId,
                  gestureStroke >>

\* generateImageEdit of request i rejects, or returns no image: the catch
\* branch shows a toast, the finally branch resets isLoading.
GenerateFails(i) ==
  /\ i \in 1..Len(requests)
  /\ requests[i].stage = "sent"
  /\ toast' = "Generation Failed"
  /\ isLoading' = FALSE
  /\ Commit([ World EXCEPT !.reqs = RemoveAt(@, i) ], FALSE)
  /\ gesture' = IF gesture.state = "open" THEN gesture ELSE NoGesture
  /\ UNCHANGED << generatedImage, sameMs, activeHistoryId, confirmingNewImage, tool,
                  isDrawing, isDragging, dragOffset, lastClickRecent, nextId,
                  gestureStroke >>

\* ------------------------------------------------------------ the API key
\* handleSaveApiKey(key) of the page: the key is kept and its dialog closed.
handleSaveApiKey(key) ==
  /\ confirmingNewImage = NoImage
  /\ generatedImage = NoImage
  /\ Commit([ World EXCEPT !.apiKey = key, !.keyDialog = FALSE ], FALSE)
  /\ toast' = "API Key saved!"
  /\ Interrupt
  /\ UNCHANGED << isLoading, generatedImage, sameMs, activeHistoryId, confirmingNewImage,
                  tool, isDrawing, isDragging, dragOffset, lastClickRecent, nextId,
                  gestureStroke >>

\* handleGenerate of the page, with setIsLoading(true) ahead of the three
\* tests that refuse to generate.
handleGenerateLoadsFirst(viaButton, customPrompt) ==
  /\ NoDialog
  /\ viaButton => ~isLoading
  /\ isLoading' = TRUE
  /\ LET s == arrs[canvasObjects]
         refs == SelectSeq(s, LAMBDA r : objs[r].type = "highlight")
                   \o SelectSeq(s, LAMBDA r : objs[r].type = "annotation")
         req == [ stage |-> IF refs = << >> THEN "sent" ELSE "flattening",
                  refs |-> refs, base |-> baseImage, prompt |-> customPrompt,
                  annotated |-> << >>, atTrigger |-> Flattened(World, refs),
                  apiKey |-> apiKey ]
     IN IF apiKey = NoKey
        THEN /\ Commit([ World EXCEPT !.keyDialog = TRUE ], FALSE)
             /\ UNCHANGED toast
        ELSE IF baseImage = NoImage
        THEN /\ toast' = "No Base Image"
             /\ Commit(World, FALSE)
        ELSE IF refs = << >> /\ customPrompt = ""
        THEN /\ toast' = "Nothing to Generate"
             /\ Commit(World, FALSE)
        ELSE /\ Commit([ World EXCEPT !.reqs = Append(@, req) ], FALSE)
             /\ UNCHANGED toast
  /\ Interrupt
  /\ UNCHANGED << generatedImage, sameMs, activeHistoryId, confirmingNewImage, tool,
                  isDrawing, isDragging, dragOffset, lastClickRecent, nextId,
                  gestureStroke >>

\* handleGenerate of the page (useMagicMarkup), up to its first await: the
\* handleGenerate of the editor behind a test of the API key, with the key
\* passed to generateImageEdit.  It returns before setIsLoading(true) when
\* there is no key, no base image, or nothing to generate.
handleGenerateWithKey(viaButton, customPrompt) ==
  /\ NoDialog
  /\ viaButton => ~isLoading
  /\ LET s == arrs[canvasObjects]
         refs == SelectSeq(s, LAMBDA r : objs[r].type = "highlight")
                   \o SelectSeq(s, LAMBDA r : objs[r].type = "annotation")
         req == [ stage |-> IF refs = << >> THEN "sent" ELSE "flattening",
                  refs |-> refs, base |-> baseImage, prompt |-> customPrompt,
                  annotated |-> << >>, atTrigger |-> Flattened(World, refs),
                  apiKey |-> apiKey ]
     IN IF apiKey = NoKey
        THEN /\ Commit([ World EXCEPT !.keyDialog = TRUE ], FALSE)
             /\ UNCHANGED << toast, isLoading >>
        ELSE IF baseImage = NoImage
        THEN /\ toast' = "No Base Image"
             /\ Commit(World, FALSE)
             /\ UNCHANGED isLoading
        ELSE IF refs = << >> /\ customPrompt = ""
        THEN /\ toast' = "Nothing to Generate"
             /\ Commit(World, FALSE)
             /\ UNCHANGED isLoading
        ELSE /\ isLoading' = TRUE
             /\ Commit([ World EXCEPT !.reqs = Append(@, req) ], FALSE)
             /\ UNCHANGED toast
  /\ Interrupt
  /\ UNCHANGED << generatedImage, sameMs, activeHistoryId, confirmingNewImage, tool,
                  isDrawing, isDragging, dragOffset, lastClickRecent, nextId,
                  gestureStroke >>

\* generateImageEditFlow for request i: it throws without an API key and
\* without both an annotated image and a prompt, and the catch and finally
\* branches of the caller run; otherwise it calls the model.
generateImageEditFlow(i) ==
  /\ i \in 1..Len(requests)
  /\ requests[i].stage = "sent"
  /\ IF \/ requests[i].apiKey = NoKey
        \/ (requests[i].annotated = << >> /\ requests[i].prompt = "")
     THEN /\ toast' = "Generation Failed"
          /\ isLoading' = FALSE
          /\ Commit([ World EXCEPT !.reqs = RemoveAt(@, i) ], FALSE)
     ELSE /\ Commit([ World EXCEPT !.reqs[i].stage = "model" ], FALSE)
          /\ UNCHANGED << toast, isLoading >>
  /\ gesture' = IF gesture.state = "open" THEN gesture ELSE NoGesture
  /\ UNCHANGED << generatedImage, sameMs, activeHistoryId, confirmingNewImage, tool,
                  isDrawing, isDragging, dragOffset, lastClickRecent, nextId,
                  gestureStroke >>

\* The model answers request i, with an image or with none.
ModelReturns(i, withImage) ==
  /\ i \in 1..Len(requests)
  /\ requests[i].stage = "model"
  /\ IF withImage
     THEN generatedImage' = EditedImage /\ UNCHANGED toast
     ELSE toast' = "Generation Failed" /\ UNCHANGED generatedImage
  /\ isLoading' = FALSE
  /\ Commit([ World EXCEPT !.reqs = RemoveAt(@, i) ], FALSE)
  /\ gesture' = IF gesture.state = "open" THEN gesture ELSE NoGesture
  /\ UNCHANGED << sameMs, activeHistoryId, confirmingNewImage, tool, isDrawing,
                  isDragging, dragOffset, lastClickRecent, nextId, gestureStroke >>

\* "Keep editing" in the dialog of the generated image.
handleKeepEditing ==
  /\ generatedImage # NoImage
  /\ NewSessionId(World) <= MaxSessions
  /\ Commit(startNewSession(World, generatedImage), TRUE)
  /\ activeHistoryId' = NewSessionId(World)
  /\ generatedImage' = NoImage
  /\ Interrupt
  /\ UNCHANGED << isLoading, toast, sameMs, confirmingNewImage, tool, isDrawing,
                  isDragging, dragOffset, lastClickRecent, nextId, gestureStroke >>

\* The dialog of the generated image is closed.
CloseGenerated ==
  /\ generatedImage # NoImage
  /\ generatedImage' = NoImage
  /\ Commit(World, FALSE)
  /\ Interrupt
  /\ UNCHANGED << isLoading, toast, sameMs, activeHistoryId, confirmingNewImage, tool,
                  isDrawing, isDragging, dragOffset, lastClickRecent, nextId,
                  gestureStroke >>

\* ------------------------------------------------------------ time
\* The next event is handled within the millisecond of the last Date.now().
SameMillisecond ==
  /\ nextId > 1
  /\ ~sameMs
  /\ sameMs' = TRUE
  /\ UNCHANGED << objs, arrs, canvasObjects, history, historyPointer, pending,
                  sessionHistory, activeHistoryId, baseImage, confirmingNewImage,
                  editingAnnotation, tool, isDrawing, isDragging, dragOffset,
                  lastClickRecent, nextId, isLoading, generatedImage, requests, toast,
                  elementImageUrls, apiKey, isApiKeyDialogOpen, elementAdds,
                  gestureStroke, gesture >>

\* At least 300 ms pass.
TimePasses ==
  /\ lastClickRecent
  /\ lastClickRecent' = FALSE
  /\ sameMs' = FALSE
  /\ UNCHANGED << isLoading, generatedImage, toast, requests,
                  objs, arrs, canvasObjects, history, historyPointer, pending,
                  sessionHistory, activeHistoryId, baseImage, confirmingNewImage,
                  editingAnnotation, tool, isDrawing, isDragging, dragOffset, nextId,
                  elementImageUrls, apiKey, isApiKeyDialogOpen, elementAdds,
                  gestureStroke, gesture >>

Next ==
  \/ \E img \in Images : handleBaseImageUpload(img)
  \/ \E b \in BOOLEAN : handleConfirmNewImage(b)
  \/ \E i \in 1..MaxSessions : LoadHistoryItem(i)
  \/ handleNewSession
  \/ \E t \in Tools : SetTool(t)
  \/ Undo
  \/ Redo
  \/ Clear
  \/ \E p \in Pts : handleCanvasMouseDown(p)
  \/ \E p \in Pts : handleCanvasMouseMove(p)
  \/ handleCanvasMouseUp
  \/ \E t \in Texts, p \in Pts : handleSaveAnnotation(t, p)
  \/ \E t \in Texts : TextAnnotatorSave(t)
  \/ \E t \in Texts : TextAnnotatorSaveCollapsed(t)
  \/ Reload
  \/ \E key \in Keys : handleSaveApiKey(key)
  \/ \E b \in BOOLEAN, c \in Prompts : handleGenerateWithKey(b, c)
  \/ \E i \in 1..MaxRequests : generateImageEditFlow(i)
  \/ \E i \in 1..MaxRequests, b \in BOOLEAN : ModelReturns(i, b)
  \/ \E img \in ElementImages : addElementImage(img)
  \/ \E i \in 1..3 : handleRemoveElementImage(i)
  \/ handleCancelAnnotation
  \/ handleKeyDown
  \/ ImageLoaded
  \/ \E b \in BOOLEAN, c \in Prompts : handleGenerate(b, c)
  \/ \E i \in 1..MaxRequests : BaseImgLoaded(i)
  \/ \E i \in 1..MaxRequests : GenerateSucceeds(i)
  \/ \E i \in 1..MaxRequests : GenerateFails(i)
  \/ handleKeepEditing
  \/ CloseGenerated
  \/ SameMillisecond
  \/ TimePasses

Spec == Init /\ [][Next]_vars

\* ------------------------------------------------------------ parts of the editor
\* The first base image: an upload while there is none.
UploadFirst == baseImage = NoImage /\ handleBaseImageUpload("imgA")

\* Highlight gestures on one image, with the toolbar's undo, redo and clear.
NextDraw ==
  \/ UploadFirst
  \/ \E p \in Pts : MouseDownHighlight(p)
  \/ \E p \in Pts : handleCanvasMouseMove(p)
  \/ handleCanvasMouseUp
  \/ Undo
  \/ Redo
  \/ Clear
  \/ ImageLoaded

SpecDraw == Init /\ [][NextDraw]_vars

\* The same without pointer-moves: every stroke is a click.
NextClick ==
  \/ UploadFirst
  \/ \E p \in Pts : MouseDownHighlight(p)
  \/ handleCanvasMouseUp
  \/ Undo
  \/ Redo
  \/ Clear
  \/ ImageLoaded

SpecClick == Init /\ [][NextClick]_vars

\* Text annotations on one image, with undo and redo.
NextNote ==
  \/ UploadFirst
  \/ \E t \in { "highlight", "annotate" } : SetTool(t)
  \/ \E p \in Pts : MouseDownAnnotate(p)
  \/ \E t \in Texts, p \in Pts : handleSaveAnnotation(t, p)
  \/ handleCancelAnnotation
  \/ Undo
  \/ Redo
  \/ ImageLoaded

SpecNote == Init /\ [][NextNote]_vars

\* Sessions: several base images, clicks of the highlight tool, the toolbar.
NextSession ==
  \/ \E img \in Images : handleBaseImageUpload(img)
  \/ \E b \in BOOLEAN : handleConfirmNewImage(b)
  \/ \E i \in 1..MaxSessions : LoadHistoryItem(i)
  \/ handleNewSession
  \/ \E p \in Pts : MouseDownHighlight(p)
  \/ handleCanvasMouseUp
  \/ Undo
  \/ Redo
  \/ Clear
  \/ ImageLoaded

SpecSession == Init /\ [][NextSession]_vars

\* Pointer-downs of the highlight, annotate and erase tools on one image:
\* the scenes are the mixes of strokes and annotations, in any order.
NextHit ==
  \/ UploadFirst
  \/ \E t \in { "highlight", "annotate", "erase" } : SetTool(t)
  \/ \E p \in Pts : MouseDownHighlight(p)
  \/ \E p \in Pts : MouseDownAnnotate(p)
  \/ \E t \in Texts, p \in Pts : handleSaveAnnotation(t, p)
  \/ \E p \in Pts : MouseDownErase(p)
  \/ ImageLoaded

SpecHit == Init /\ [][NextHit]_vars

\* Strokes drawn by clicks, which may follow each other within a millisecond,
\* the select tool and the Delete key, undo and redo.
NextSelect ==
  \/ UploadFirst
  \/ \E t \in { "highlight", "select" } : SetTool(t)
  \/ \E p \in Pts : MouseDownHighlight(p)
  \/ handleCanvasMouseUp
  \/ SameMillisecond
  \/ \E p \in Pts : MouseDownSelect(p)
  \/ handleKeyDown
  \/ Undo
  \/ Redo
  \/ ImageLoaded

SpecSelect == Init /\ [][NextSelect]_vars

\* Strokes drawn by clicks, clicks of the erase tool, undo.
NextErase ==
  \/ UploadFirst
  \/ \E t \in { "highlight", "erase" } : SetTool(t)
  \/ \E p \in Pts : MouseDownHighlight(p)
  \/ \E p \in Pts : MouseDownErase(p)
  \/ handleCanvasMouseUp
  \/ Undo
  \/ ImageLoaded

SpecErase == Init /\ [][NextErase]_vars

\* Generation requests on one image: strokes drawn by clicks, the Generate
\* button and Ctrl/Cmd+Enter, the outcomes of a request.
NextGen ==
  \/ UploadFirst
  \/ \E p \in Pts : MouseDownHighlight(p)
  \/ handleCanvasMouseUp
  \/ \E b \in BOOLEAN, c \in Prompts : handleGenerate(b, c)
  \/ \E i \in 1..MaxRequests : BaseImgLoaded(i)
  \/ \E i \in 1..MaxRequests : GenerateSucceeds(i)
  \/ \E i \in 1..MaxRequests : GenerateFails(i)
  \/ CloseGenerated
  \/ ImageLoaded

SpecGen == Init /\ [][NextGen]_vars

\* Requests that fail: pointer-downs of the highlight tool, the two triggers
\* with a prompt typed, the failure.
NextFail ==
  \/ UploadFirst
  \/ \E p \in Pts : MouseDownHighlight(p)
  \/ \E b \in BOOLEAN : handleGenerate(b, "moody sky")
  \/ \E i \in 1..MaxRequests : BaseImgLoaded(i)
  \/ \E i \in 1..MaxRequests : GenerateFails(i)
  \/ ImageLoaded

SpecFail == Init /\ [][NextFail]_vars

\* Strokes of several points and requests started with the Generate button,
\* the prompt box empty.
NextGenDraw ==
  \/ UploadFirst
  \/ \E p \in Pts : MouseDownHighlight(p)
  \/ \E p \in Pts : handleCanvasMouseMove(p)
  \/ handleCanvasMouseUp
  \/ handleGenerate(TRUE, "")
  \/ \E i \in 1..MaxRequests : BaseImgLoaded(i)
  \/ \E i \in 1..MaxRequests : GenerateSucceeds(i)
  \/ CloseGenerated
  \/ ImageLoaded

SpecGenDraw == Init /\ [][NextGenDraw]_vars

\* Annotations typed into the overlay and saved where it opened, and clicks
\* of the select tool.
NextOverlay ==
  \/ UploadFirst
  \/ \E t \in { "annotate", "select" } : SetTool(t)
  \/ \E p \in Pts : MouseDownAnnotate(p)
  \/ \E t \in Texts : TextAnnotatorSave(t)
  \/ \E p \in Pts : MouseDownSelect(p)
  \/ handleCanvasMouseUp
  \/ ImageLoaded
  \/ TimePasses

SpecOverlay == Init /\ [][NextOverlay]_vars

\* Annotations saved from the overlay, with the canvas laid out or collapsed.
NextCollapse ==
  \/ UploadFirst
  \/ SetTool("annotate")
  \/ \E p \in Pts : MouseDownAnnotate(p)
  \/ \E t \in Texts : TextAnnotatorSave(t)
  \/ \E t \in Texts : TextAnnotatorSaveCollapsed(t)
  \/ Undo
  \/ ImageLoaded

SpecCollapse == Init /\ [][NextCollapse]_vars

\* Annotations and strokes in either order, flattened for a request.
NextFlatten ==
  \/ UploadFirst
  \/ \E t \in { "annotate", "highlight" } : SetTool(t)
  \/ \E p \in Pts : MouseDownAnnotate(p)
  \/ \E t \in Texts : TextAnnotatorSave(t)
  \/ \E p \in Pts : MouseDownHighlight(p)
  \/ handleCanvasMouseUp
  \/ handleGenerate(TRUE, "")
  \/ \E i \in 1..MaxRequests : BaseImgLoaded(i)
  \/ \E i \in 1..MaxRequests : GenerateSucceeds(i)
  \/ CloseGenerated
  \/ ImageLoaded

SpecFlatten == Init /\ [][NextFlatten]_vars

\* Edits of a session, and reloads of the page.
NextPersist ==
  \/ UploadFirst
  \/ \E t \in { "annotate", "highlight" } : SetTool(t)
  \/ \E p \in Pts : MouseDownAnnotate(p)
  \/ \E t \in Texts : TextAnnotatorSave(t)
  \/ \E t \in Texts : TextAnnotatorSaveCollapsed(t)
  \/ \E p \in Pts : MouseDownHighlight(p)
  \/ handleCanvasMouseUp
  \/ Undo
  \/ ImageLoaded
  \/ Reload

SpecPersist == Init /\ [][NextPersist]_vars

\* A base image replaced while strokes and element images exist.
NextReplace ==
  \/ \E img \in Images : handleBaseImageUpload(img)
  \/ \E b \in BOOLEAN : handleConfirmNewImage(b)
  \/ \E img \in ElementImages : addElementImage(img)
  \/ \E i \in 1..3 : handleRemoveElementImage(i)
  \/ \E p \in Pts : MouseDownHighlight(p)
  \/ handleCanvasMouseUp
  \/ ImageLoaded

SpecReplace == Init /\ [][NextReplace]_vars

\* Generation from the page with its button: the key, a stroke, the prompt,
\* the flow.
NextKey ==
  \/ \E key \in Keys : handleSaveApiKey(key)
  \/ UploadFirst
  \/ \E p \in Pts : MouseDownHighlight(p)
  \/ \E c \in Prompts : handleGenerateWithKey(TRUE, c)
  \/ \E i \in 1..MaxRequests : BaseImgLoaded(i)
  \/ \E i \in 1..MaxRequests : generateImageEditFlow(i)
  \/ \E i \in 1..MaxRequests, b \in BOOLEAN : ModelReturns(i, b)
  \/ CloseGenerated
  \/ ImageLoaded

SpecKey == Init /\ [][NextKey]_vars

\* Erase gestures with their pointer-moves over strokes drawn by clicks (no
\* pointer-move while a stroke is drawn), two of which may fall into one
\* millisecond.
NextSweep ==
  \/ UploadFirst
  \/ \E t \in { "highlight", "erase" } : SetTool(t)
  \/ \E p \in Pts : MouseDownHighlight(p)
  \/ SameMillisecond
  \/ \E p \in Pts : MouseDownErase(p)
  \/ \E p \in Pts : tool = "erase" /\ handleCanvasMouseMove(p)
  \/ handleCanvasMouseUp
  \/ ImageLoaded

SpecSweep == Init /\ [][NextSweep]_vars

\* Annotations saved over strokes drawn by clicks, two creations of which
\* may fall into one millisecond.
NextNoteIds ==
  \/ UploadFirst
  \/ \E t \in { "highlight", "annotate" } : SetTool(t)
  \/ \E p \in Pts : MouseDownHighlight(p)
  \/ handleCanvasMouseUp
  \/ SameMillisecond
  \/ \E p \in Pts : MouseDownAnnotate(p)
  \/ \E t \in Texts, p \in Pts : handleSaveAnnotation(t, p)
  \/ ImageLoaded

SpecNoteIds == Init /\ [][NextNoteIds]_vars

\* Pointer-moves over the canvas with no button down, between strokes drawn
\* by clicks, under every tool.
NextHover ==
  \/ UploadFirst
  \/ \E t \in Tools : SetTool(t)
  \/ \E p \in Pts : MouseDownHighlight(p)
  \/ \E p \in Pts : handleCanvasMouseMoveIdle(p)
  \/ handleCanvasMouseUp
  \/ Undo
  \/ ImageLoaded

SpecHover == Init /\ [][NextHover]_vars

\* Requests started with the Generate button, with every outcome of the load
\* of the base image and of the call of the model.
NextBusy ==
  \/ UploadFirst
  \/ \E p \in Pts : MouseDownHighlight(p)
  \/ handleCanvasMouseUp
  \/ \E c \in Prompts : handleGenerate(TRUE, c)
  \/ \E i \in 1..MaxRequests : BaseImgLoaded(i)
  \/ \E i \in 1..MaxRequests : BaseImgError(i)
  \/ \E i \in 1..MaxRequests : BaseImgLoadedNoContext(i)
  \/ \E i \in 1..MaxRequests : GenerateSucceeds(i)
  \/ \E i \in 1..MaxRequests : GenerateFails(i)
  \/ CloseGenerated
  \/ ImageLoaded

\* The requests of rs that are at stage st.
Waiting(rs, st) == { i \in 1..Len(rs) : rs[i].stage = st }

\* Any value of every variable but requests.  Each conjunct is true; TLC,
\* which evaluates ENABLED by building a successor, takes the value its
\* first disjunct names.
AnyOther ==
  /\ (objs' = objs \/ objs' # objs)
  /\ (arrs' = arrs \/ arrs' # arrs)
  /\ (canvasObjects' = canvasObjects \/ canvasObjects' # canvasObjects)
  /\ (history' = history \/ history' # history)
  /\ (historyPointer' = historyPointer \/ historyPointer' # historyPointer)
  /\ (pending' = pending \/ pending' # pending)
  /\ (sessionHistory' = sessionHistory \/ sessionHistory' # sessionHistory)
  /\ (activeHistoryId' = activeHistoryId \/ activeHistoryId' # activeHistoryId)
  /\ (baseImage' = baseImage \/ baseImage' # baseImage)
  /\ (confirmingNewImage' = confirmingNewImage \/ confirmingNewImage' # confirmingNewImage)
  /\ (editingAnnotation' = editingAnnotation \/ editingAnnotation' # editingAnnotation)
  /\ (tool' = tool \/ tool' # tool)
  /\ (isDrawing' = isDrawing \/ isDrawing' # isDrawing)
  /\ (isDragging' = isDragging \/ isDragging' # isDragging)
  /\ (dragOffset' = dragOffset \/ dragOffset' # dragOffset)
  /\ (lastClickRecent' = lastClickRecent \/ lastClickRecent' # lastClickRecent)
  /\ (nextId' = nextId \/ nextId' # nextId)
  /\ (sameMs' = sameMs \/ sameMs' # sameMs)
  /\ (isLoading' = isLoading \/ isLoading' # isLoading)
  /\ (generatedImage' = generatedImage \/ generatedImage' # generatedImage)
  /\ (elementImageUrls' = elementImageUrls \/ elementImageUrls' # elementImageUrls)
  /\ (apiKey' = apiKey \/ apiKey' # apiKey)
  /\ (isApiKeyDialogOpen' = isApiKeyDialogOpen \/ isApiKeyDialogOpen' # isApiKeyDialogOpen)
  /\ (elementAdds' = elementAdds \/ elementAdds' # elementAdds)
  /\ (toast' = toast \/ toast' # toast)
  /\ (gestureStroke' = gestureStroke \/ gestureStroke' # gestureStroke)
  /\ (gesture' = gesture \/ gesture' # gesture)

\* A step that leaves fewer requests at stage st: one of them has moved on
\* or is gone.
Settles(st) ==
  /\ Waiting(requests, st) # {}
  /\ AnyOther
  /\ (requests' = << >> \/ requests' # << >>)
  /\ Cardinality(Waiting(requests', st)) < Cardinality(Waiting(requests, st))

\* The browser ends the load of every image, with a load or with an error
\* event, and every call of generateImageEdit is settled, with a result or
\* with a rejection.
BaseImgSettles == Settles("flattening")
GenerateSettles == Settles("sent")

SpecBusy ==
  Init /\ [][NextBusy]_vars /\ WF_vars(BaseImgSettles) /\ WF_vars(GenerateSettles)

\* Sessions started from the empty editor, loaded and deleted, with strokes
\* drawn by clicks.  The first session of a list has the image imgA, every
\* later one imgB.
NextDelete ==
  \/ /\ baseImage = NoImage
     /\ handleBaseImageUpload(IF sessionHistory = << >> THEN "imgA" ELSE "imgB")
  \/ \E i \in 1..MaxSessions : LoadHistoryItem(i)
  \/ handleNewSession
  \/ \E id \in 1..MaxSessions : handleDeleteHistoryItem(id)
  \/ MouseDownHighlight(<< 10, 10 >>)
  \/ ImageLoaded

SpecDelete == Init /\ [][NextDelete]_vars

\* Element images added with overlapping calls, and removed.
NextAdds ==
  \/ UploadFirst
  \/ \E img \in Images : addElementImageBegin(img)
  \/ \E i \in 1..MaxAdds : addElementImageEnd(i)
  \/ \E i \in 1..3 : handleRemoveElementImage(i)
  \/ ImageLoaded

SpecAdds == Init /\ [][NextAdds]_vars

\* ------------------------------------------------------------ properties
\* A pointer-move of a highlight gesture.
HighlightMove == \E p \in Pts : handleCanvasMouseMove(p) /\ tool = "highlight" /\ isDrawing

\* The scene undo() would give in this state.
UndoneScene == Content(undo(World), undo(World).scene)

\* C1: undo right after a commit sets the scene to exactly the content that
\* preceded the gesture (here: a highlight gesture committed by pointer-up).
UndoRestoresPriorScene ==
  [][(gesture.state = "committed" /\ Undo) => SceneContent' = gesture.before]_vars

\* C2: a commit leaves no redoable entry: right after a step that commits,
\* redo() is a no-op.
RedoAfterCommitIsNoOp ==
  [][gesture'.state = "committed" => ~CanRedo(historyPointer', Len(history'))]_vars

\* C3: whenever the history is non-empty, 0 <= historyPointer < entries.length.
PointerInRange ==
  Len(history) > 0 => (0 <= historyPointer /\ historyPointer < Len(history))

\* C3, its case: a pointer strictly between the first and the last entry.
PointerInside ==
  /\ historyPointer > 0
  /\ historyPointer < Len(history) - 1
  /\ \E i \in 1..Len(history) : HistContent[i] # << >>

\* C4: no pointer-move, with the render and the effects it triggers, appends
\* a history entry or moves the pointer.
MoveKeepsHistory ==
  [][(\E p \in Pts : handleCanvasMouseMove(p))
       => (HistContent' = HistContent /\ historyPointer' = historyPointer)]_vars

\* C5: no scene operation (a pointer-down or a pointer-move on the canvas)
\* alters the content of an entry that is in the history.
EntriesImmutable ==
  [][((\E p \in Pts : MouseDownHighlight(p)) \/ (\E p \in Pts : handleCanvasMouseMove(p)))
       => \A i \in 1..Len(history) :
            i <= Len(history') /\ HistContent'[i] = HistContent[i]]_vars

\* C6: after a new base image replaced the current one, or after a clear,
\* the history holds no object (the least the claim says: a history of exactly
\* one empty entry holds none), and the pointer is 0.
ReplaceResetsHistory ==
  [][(\/ handleConfirmNewImage(TRUE)
      \/ \E i \in 1..MaxSessions :
           LoadHistoryItem(i) /\ sessionHistory[i].id # activeHistoryId
      \/ Clear)
       => (/\ \A i \in 1..Len(history') : HistContent'[i] = << >>
           /\ historyPointer' = 0)]_vars

\* C7: a highlight gesture begun on an empty scene with an empty history
\* (pointer-down, two pointer-moves, pointer-up) leaves one stroke with the
\* three sampled points in order and a history of exactly 2 entries, and
\* undo() then gives the empty scene.
ThreePointStroke ==
  [][(/\ gesture.state = "open" /\ gesture.fresh /\ Len(gesture.samples) = 3
      /\ isDrawing
      /\ handleCanvasMouseUp)
       => (/\ Len(SceneContent') = 1
           /\ SceneContent'[1].points = gesture.samples
           /\ Len(history') = 2
           /\ UndoneScene' = << >>)]_vars

\* C8: a pointer-move of a highlight gesture grows the stroke of this gesture
\* by exactly one point, and grows no other stroke.
AppendOnce ==
  [][HighlightMove
       => \A j \in 1..Len(SceneContent) :
            Len(SceneContent'[j].points)
              = Len(SceneContent[j].points)
                + (IF SceneContent[j].id = gestureStroke THEN 1 ELSE 0)]_vars

\* C9: a pointer-move of a highlight gesture changes no object other than
\* the stroke its pointer-down created; when that stroke is not in the scene
\* the move changes nothing.
MoveOnlyOwnStroke ==
  [][HighlightMove
       => \A j \in 1..Len(SceneContent) :
            (SceneContent[j].id # gestureStroke \/ SceneContent[j].type # "highlight")
              => SceneContent'[j] = SceneContent[j]]_vars

\* The highest index of the scene whose object matches p, 0 if none does.
TopMatch(p) ==
  LET M == { j \in 1..Len(SceneContent) : Matches(SceneContent[j], p) }
  IN IF M = { } THEN 0 ELSE CHOOSE j \in M : \A k \in M : k <= j

\* C10: hitTest returns the matching object latest in z-order (of highest
\* index), and null when no object matches.
HitIsTopmost ==
  \A p \in Pts :
    hitTest(World, canvasObjects, p)
      = (IF TopMatch(p) = 0 THEN 0 ELSE arrs[canvasObjects][TopMatch(p)])

\* C10, its case: the erase tool's pointer-down on a scene in which a stroke
\* and an annotation match the same point.
SeveralMatch ==
  /\ tool = "erase"
  /\ gesture.state = "open"
  /\ \E p \in Pts : \E i, j \in 1..Len(SceneContent) :
       /\ i # j
       /\ SceneContent[i].type = "highlight"
       /\ SceneContent[j].type = "annotation"
       /\ Matches(SceneContent[i], p)
       /\ Matches(SceneContent[j], p)

\* The points a hit test is asked about: the pointer's points, a point strictly
\* inside the box of an annotation at <<10, 10>>, points nearer than, exactly
\* at and farther than strokeWidth/2 + 5 from the vertex <<10, 10>>.
Probes == Pts \cup { <<12, 5>>, <<16, 16>>, <<10, 20>>, <<2, 17>>, <<40, 40>> }

\* p is strictly inside the measured box of the annotation o.
StrictlyInsideBox(o, p) ==
  /\ o.type = "annotation" /\ o.width # 0 /\ o.height # 0
  /\ o.position[1] < p[1] /\ p[1] < o.position[1] + o.width
  /\ o.position[2] - o.height < p[2] /\ p[2] < o.position[2]

\* p is in the measured box of the annotation o, borders included.
InBox(o, p) ==
  /\ o.type = "annotation" /\ o.width # 0 /\ o.height # 0
  /\ o.position[1] <= p[1] /\ p[1] <= o.position[1] + o.width
  /\ o.position[2] - o.height <= p[2] /\ p[2] <= o.position[2]

\* Twice the distance of p to the vertex v, squared, and twice the radius
\* strokeWidth/2 + 5 of the stroke o, squared.
Dist2(v, p) == 4 * ((v[1] - p[1]) * (v[1] - p[1]) + (v[2] - p[2]) * (v[2] - p[2]))
Radius2(o) == (o.strokeWidth + 10) * (o.strokeWidth + 10)

\* p is nearer than the radius to some vertex of the stroke o.
NearVertex(o, p) ==
  o.type = "highlight" /\ \E i \in 1..Len(o.points) : Dist2(o.points[i], p) < Radius2(o)

\* p is at most the radius away from some vertex of the stroke o.
NotFarther(o, p) ==
  o.type = "highlight" /\ \E i \in 1..Len(o.points) : Dist2(o.points[i], p) <= Radius2(o)

\* No object above index j of the scene can match p.
NothingAbove(j, p) ==
  \A k \in (j + 1)..Len(SceneContent) :
    ~InBox(SceneContent[k], p) /\ ~NotFarther(SceneContent[k], p)

SelectClick ==
  \E p \in Pts :
    /\ MouseDownSelect(p)
    /\ hitTest(World, canvasObjects, p) # 0
    /\ ~(lastClickRecent /\ objs[hitTest(World, canvasObjects, p)].type = "annotation")

\* The indexes of the selected objects of a scene content.
Selected(c) == { j \in 1..Len(c) : c[j].selected = "true" }

\* C12: a click of the select tool selects one object, and Delete then
\* removes exactly the selected object: every other object is still in the
\* scene, in the same relative order, unselected.
DeleteRemovesOne ==
  [][/\ SelectClick => Cardinality(Selected(SceneContent')) = 1
     /\ (handleKeyDown /\ Cardinality(Selected(SceneContent)) = 1)
          => /\ Len(SceneContent') = Len(SceneContent) - 1
             /\ SceneContent' = SelectSeq(SceneContent, LAMBDA o : o.selected # "true")
             /\ Selected(SceneContent') = { }]_vars

\* C13: whenever the active tool is not select, no object of the scene is
\* selected.
NoSelectionOutsideSelect ==
  tool # "select" => Selected(SceneContent) = { }

\* C17: no two objects of the scene have the same id.
IdsUnique ==
  \A i, j \in 1..Len(SceneContent) :
    SceneContent[i].id = SceneContent[j].id => i = j

\* C14: ending a text edit with an empty text, with Escape or with the cancel
\* button creates and changes no object, leaves the history (entries and
\* pointer) as it was, and leaves no annotation being edited.
CancelChangesNothing ==
  [][handleCancelAnnotation
       => (/\ SceneContent' = SceneContent
           /\ HistContent' = HistContent
           /\ historyPointer' = historyPointer
           /\ editingAnnotation' = 0)]_vars

\* The objects of the content c, as a set.
Range(c) == { c[j] : j \in 1..Len(c) }

\* C16: a click of the erase tool on a vertex of a stroke removes that stroke
\* and nothing else, and undo() after the erase gesture has ended brings the
\* erased stroke back with all its points.
EraseThenUndoRestores ==
  [][/\ \A p \in Pts :
          (MouseDownErase(p) /\ hitTest(World, canvasObjects, p) # 0)
            => SceneContent'
                 = SelectSeq(SceneContent,
                             LAMBDA o : o.id # objs[hitTest(World, canvasObjects, p)].id)
     /\ (/\ gesture.state = "committed"
         /\ tool = "erase"
         /\ Range(gesture.before) # Range(SceneContent)
         /\ Undo)
          => Range(gesture.before) \subseteq Range(SceneContent')]_vars

\* The requests whose call of generateImageEdit has not returned.
InFlight == { i \in 1..Len(requests) : requests[i].stage = "sent" }

\* C18: at most one call of generateImageEdit is outstanding at any time.
OneRequestInFlight == Cardinality(InFlight) <= 1

\* C19: the annotated image sent with a request shows the scene as it was
\* when the request was triggered.
SentEqualsTriggered ==
  \A i \in InFlight : requests[i].annotated = requests[i].atTrigger

\* The session items with the content of their annotations.
SessContent ==
  [ i \in 1..Len(sessionHistory) |->
      [ id |-> sessionHistory[i].id, baseImage |-> sessionHistory[i].baseImage,
        annotations |-> Content(World, sessionHistory[i].annotations) ] ]

\* C20: when a generation call fails, the scene, the history and its pointer,
\* the base image and the sessions are unchanged, and isLoading is false
\* again.
FailureLeavesEditor ==
  [][(\E i \in 1..MaxRequests : GenerateFails(i))
       => (/\ SceneContent' = SceneContent
           /\ HistContent' = HistContent
           /\ historyPointer' = historyPointer
           /\ baseImage' = baseImage
           /\ activeHistoryId' = activeHistoryId
           /\ SessContent' = SessContent
           /\ editingAnnotation' = editingAnnotation
           /\ isLoading' = FALSE)]_vars

\* C20, its case: a request has failed on a scene with a stroke and a history
\* with a snapshot of it, and the editor is idle again.
FailedWithScene ==
  /\ toast = "Generation Failed"
  /\ ~isLoading
  /\ requests = << >>
  /\ SceneContent # << >>
  /\ historyPointer > 0
  /\ \E i \in 1..Len(history) : HistContent[i] # << >>

\* The annotation being edited is not in the scene yet.
EditingNew ==
  /\ editingAnnotation # 0
  /\ \A j \in 1..Len(SceneContent) : SceneContent[j].id # objs[editingAnnotation].id

\* C15: a click of the annotate tool at P, a text T typed and committed
\* without moving the overlay, adds exactly one annotation, with text T and
\* position P (the two conversions of the overlay are inverses); a later
\* click of the select tool outside the measured box of an annotation does
\* not select it.
AnnotationLandsAtClick ==
  [][/\ \A t \in Texts :
          (EditingNew /\ TextAnnotatorSave(t))
            => /\ Len(SceneContent') = Len(SceneContent) + 1
               /\ SubSeq(SceneContent', 1, Len(SceneContent)) = SceneContent
               /\ SceneContent'[Len(SceneContent')].type = "annotation"
               /\ SceneContent'[Len(SceneContent')].text = t
               /\ SceneContent'[Len(SceneContent')].position
                    = objs[editingAnnotation].position
     /\ \A p \in Pts :
          MouseDownSelect(p)
            => \A j \in 1..Len(SceneContent) :
                 (SceneContent[j].type = "annotation" /\ ~InBox(SceneContent[j], p))
                   => SceneContent'[j].selected # "true"]_vars

\* C21: undo() at pointer 0 and redo() at the last entry are no-ops: the
\* scene, the history entries and the pointer stay as they are.
BoundaryNoOps ==
  [][((Undo /\ ~CanUndo(historyPointer)) \/ (Redo /\ ~CanRedo(historyPointer, Len(history))))
       => (/\ SceneContent' = SceneContent
           /\ HistContent' = HistContent
           /\ historyPointer' = historyPointer)]_vars

\* C21, its case: the pointer is at the last of several entries, which redo
\* cannot pass, and that entry differs from the scene on the canvas.
AtLastEntry ==
  /\ Len(history) > 1
  /\ historyPointer = Len(history) - 1
  /\ SceneContent # HistContent[Len(history)]
  /\ SceneContent # << >>

FinitePoint(p) == IsFinite(p[1]) /\ IsFinite(p[2])

\* C22: no coordinate stored in a stroke or an annotation of the scene is
\* anything but a finite number, also when the position was mapped while
\* the canvas had a rendered width and height of zero.
StoredCoordinatesFinite ==
  \A j \in 1..Len(arrs[canvasObjects]) :
    LET o == objs[arrs[canvasObjects][j]]
    IN /\ o.position # NoPoint => FinitePoint(o.position)
       /\ \A k \in 1..Len(o.points) : FinitePoint(o.points[k])

\* The objects a request draws, in the order it draws them.
DrawOrder(r) == [ k \in 1..Len(r.refs) |-> objs[r.refs[k]] ]

\* C23: the flattening draws the objects of the scene in document order: a
\* request that starts takes the objects of the scene in the order the scene
\* has them, whatever their types.
FlattenInDocumentOrder ==
  [][(handleGenerate(TRUE, "") /\ Len(requests') > Len(requests))
       => DrawOrder(requests[Len(requests)])' = SceneContent']_vars

\* C24: every stroke of a flattened image is drawn at full opacity.
FlattenedStrokesOpaque ==
  \A i \in 1..Len(requests) :
    \A k \in 1..Len(requests[i].annotated) :
      requests[i].annotated[k].type = "highlight" => requests[i].annotated[k].alpha = 100

\* The fields of the objects that are stored: all but the cached measurements.
Stored(c) == [ j \in 1..Len(c) |-> [ c[j] EXCEPT !.width = 0, !.height = 0 ] ]

\* C25: a reload with an active session restores that session: the same
\* active id, the same base image and the same scene objects, field for
\* field, the cached measurements excepted.
ReloadRoundTrips ==
  [][Reload => /\ activeHistoryId' = activeHistoryId
               /\ baseImage' = baseImage
               /\ Stored(SceneContent)' = Stored(SceneContent)]_vars

\* C26: a base image uploaded while one exists is only held for
\* confirmation and changes nothing else; once confirmed, a new session with
\* that image is the active one, the scene is empty, and the element images
\* are the ones there were.
ReplaceKeepsElements ==
  [][/\ ((\E img \in Images : handleBaseImageUpload(img)) /\ baseImage # NoImage)
          => /\ confirmingNewImage' \in Images
             /\ baseImage' = baseImage
             /\ activeHistoryId' = activeHistoryId
             /\ SessContent' = SessContent
             /\ SceneContent' = SceneContent
             /\ HistContent' = HistContent
             /\ elementImageUrls' = elementImageUrls
     /\ handleConfirmNewImage(TRUE)
          => /\ baseImage' = confirmingNewImage
             /\ Len(sessionHistory') = Len(sessionHistory) + 1
             /\ activeHistoryId' = sessionHistory'[Len(sessionHistory')].id
             /\ sessionHistory'[Len(sessionHistory')].baseImage = confirmingNewImage
             /\ SceneContent' = << >>
             /\ elementImageUrls' = elementImageUrls]_vars

\* handleGenerate of the page refuses.
Refuses(customPrompt) ==
  \/ apiKey = NoKey
  \/ baseImage = NoImage
  \/ (arrs[canvasObjects] = << >> /\ customPrompt = "")

CanvasPointerEvent ==
  \/ \E p \in Pts : handleCanvasMouseDown(p)
  \/ \E p \in Pts : handleCanvasMouseMove(p)
  \/ handleCanvasMouseUp

\* C28: while an annotation is being edited, a pointer event of the canvas
\* changes nothing: the annotation under edit stays the one it was, the scene
\* (selection included) stays as it is, and no stroke or drag begins.
PointerSuppressedWhileEditing ==
  [][(editingAnnotation # 0 /\ CanvasPointerEvent)
       => /\ editingAnnotation' # 0
          /\ objs'[editingAnnotation'] = objs[editingAnnotation]
          /\ SceneContent' = SceneContent
          /\ isDrawing' = isDrawing
          /\ isDragging' = isDragging]_vars

\* C29: a pointer-down of the select tool opens the text editor for an
\* annotation only as the second of two pointer-downs less than 300 ms apart
\* that both hit it.  The pointer-down before left the object it hit as the
\* selected one, and nothing selected if it hit none; the pointer-down that
\* opens the editor leaves the flag of its annotation as it was.
DoubleClickOnSameAnnotation ==
  [][\A p \in Pts :
       (MouseDownSelect(p) /\ editingAnnotation = 0 /\ editingAnnotation' # 0)
         => /\ lastClickRecent
            /\ objs'[editingAnnotation'].selected = "true"]_vars

\* The indexes of the objects of the scene that the click at p hits first.
HitIndex(p) ==
  { j \in 1..Len(arrs[canvasObjects]) :
      arrs[canvasObjects][j] = hitTest(World, canvasObjects, p) }

\* C30: in every reachable state at most one object of the scene is
\* selected.
AtMostOneSelected == Cardinality(Selected(SceneContent)) <= 1

\* The clicks of C30: a click of the select tool on an object leaves exactly
\* that object selected, and a click on empty space leaves none selected.
SelectClickSelectsHit ==
  [][\A p \in Pts :
       MouseDownSelect(p) => Selected(SceneContent') = HitIndex(p)]_vars

\* C31: the tool does not change while a gesture is in progress: from the
\* pointer-down of a stroke or drag to its pointer-up the tool is the same.
ToolFixedDuringGesture ==
  [][(isDrawing \/ isDragging) => tool' = tool]_vars

\* C32: Delete or Backspace with a selection and no text edit removes every
\* selected object and commits one history snapshot, whose content is the
\* scene after the removal.
DeleteCommitsNewScene ==
  [][handleKeyDown
       => /\ SceneContent' = SelectSeq(SceneContent, LAMBDA o : o.selected # "true")
          /\ historyPointer' = historyPointer + 1
          /\ Len(history') = historyPointer' + 1
          /\ HistContent'[historyPointer' + 1] = SceneContent']_vars

\* A pointer sample of the erase tool at p: its pointer-down, or a
\* pointer-move of its gesture.
EraseSample(p) ==
  \/ MouseDownErase(p)
  \/ (handleCanvasMouseMove(p) /\ tool = "erase" /\ isDrawing)

\* The scene without the object the sample at p hits first.
SceneWithoutHit(p) ==
  LET hit == hitTest(World, canvasObjects, p)
      kept == SelectSeq(arrs[canvasObjects], LAMBDA r : r # hit)
  IN [ j \in 1..Len(kept) |-> objs[kept[j]] ]

\* C33: an erase sample removes the topmost object hit at its point and no
\* other object, and removes nothing when it hits none.
EraseRemovesTopmostOnly ==
  [][\A p \in Pts : EraseSample(p) => SceneContent' = SceneWithoutHit(p)]_vars

\* The indexes of the objects of the scene that carry the id of the
\* annotation being edited.
EditedIndexes ==
  { j \in 1..Len(SceneContent) : SceneContent[j].id = objs[editingAnnotation].id }

\* C34: saving an annotation whose id is in the scene changes the text and
\* the position of that one object, which keeps its place, its id, its color
\* and its font size, and leaves every other object and the number of
\* objects as they were; saving one whose id is not in the scene appends one
\* annotation at the end.  The cached width and height are not compared.
SaveUpdatesOneOrAppends ==
  [][\A t \in Texts, p \in Pts :
       handleSaveAnnotation(t, p)
         => IF EditedIndexes = {}
            THEN Stored(SceneContent')
                   = Stored(Append(SceneContent,
                                   Annotation(objs[editingAnnotation].id, t, p)))
            ELSE \E j \in EditedIndexes :
                   Stored(SceneContent')
                     = Stored([ SceneContent EXCEPT ![j].text = t, ![j].position = p ])]_vars

\* The annotation being edited, by content.
EditingContent == IF editingAnnotation = 0 THEN << >> ELSE << objs[editingAnnotation] >>

\* C35: a pointer-move that arrives while neither isDrawing nor isDragging
\* is set changes nothing, whatever the tool: the scene objects with their
\* selection, the interaction state, the annotation being edited, the
\* history and its pointer are as before.
IdleMoveChangesNothing ==
  [][\A p \in Pts :
       handleCanvasMouseMoveIdle(p)
         => /\ SceneContent' = SceneContent
            /\ HistContent' = HistContent
            /\ historyPointer' = historyPointer
            /\ EditingContent' = EditingContent
            /\ UNCHANGED << tool, isDrawing, isDragging, dragOffset, lastClickRecent >>]_vars

\* A stroke is in the scene and committed, the highlight tool is chosen and
\* no button is down: the pointer moves over the canvas.
IdleMoveOverStroke ==
  /\ CanvasReady
  /\ ~isDrawing /\ ~isDragging
  /\ tool = "highlight"
  /\ Len(SceneContent) > 0
  /\ historyPointer > 0
  /\ pending = << >>

\* C36: once a generation has set isLoading, isLoading is eventually false
\* again, whether the base image of the flattening loads or fails to load,
\* the canvas context is missing, or the request is resolved or rejected.
BusyEventuallyCleared == isLoading ~> ~isLoading

\* No gesture is in progress, no annotation is being edited and every image
\* onload callback has run.
Idle ==
  /\ ~isDrawing /\ ~isDragging
  /\ editingAnnotation = 0
  /\ pending = << >>

\* C37: whenever no gesture is in progress, no text edit is open and no
\* image onload callback is pending, the history entry at the pointer has
\* the content of the scene.
PointerEntryIsScene ==
  Idle => /\ historyPointer + 1 \in 1..Len(history)
          /\ HistContent[historyPointer + 1] = SceneContent

\* The active session is left: another session is loaded, or a new session
\* is started.
LeaveSession ==
  /\ activeHistoryId # 0
  /\ \/ \E i \in 1..Len(sessionHistory) :
          LoadHistoryItem(i) /\ sessionHistory[i].id # activeHistoryId
     \/ handleNewSession

\* C38: when the active session is left for another or for a new one, its
\* item of sessionHistory, which is what loading it again shows and what the
\* save effect writes for it from then on, holds the objects the scene had
\* when it was left.
SwitchKeepsAnnotations ==
  [][LeaveSession
       => \A k \in 1..Len(sessionHistory) :
            sessionHistory[k].id = activeHistoryId
              => /\ k <= Len(sessionHistory')
                 /\ Stored(SessContent'[k].annotations) = Stored(SceneContent)]_vars

\* The ids of the sessions of sessionHistory.
SessionIds == { sessionHistory[k].id : k \in 1..Len(sessionHistory) }

\* What deleting the session id must leave: without the active session, the
\* base image and the objects of the last session left, or nothing when no
\* session is left; with another session, the scene as it is.
DeleteEffect(id) ==
  LET left == SelectSeq(SessContent, LAMBDA item : item.id # id)
  IN /\ SessContent' = left
     /\ IF activeHistoryId # id
        THEN /\ activeHistoryId' = activeHistoryId
             /\ baseImage' = baseImage
             /\ SceneContent' = SceneContent
        ELSE IF left # << >>
        THEN /\ activeHistoryId' = left[Len(left)].id
             /\ baseImage' = left[Len(left)].baseImage
             /\ Stored(SceneContent') = Stored(left[Len(left)].annotations)
        ELSE /\ activeHistoryId' = 0
             /\ baseImage' = NoImage
             /\ SceneContent' = << >>

\* C39: activeHistoryId, null when the editor is mounted, is after every
\* step null or the id of a session of sessionHistory; deleting the active
\* session makes the last session left the active one, with its base image
\* and its objects, or clears base image, scene and activeHistoryId when
\* none is left; deleting another session leaves base image, scene and
\* activeHistoryId as they are.
ActiveSessionListed ==
  [][/\ (activeHistoryId = 0 \/ activeHistoryId \in SessionIds)'
     /\ \A id \in 1..MaxSessions : handleDeleteHistoryItem(id) => DeleteEffect(id)]_vars

\* A session was deleted: the only session left is the second one, and it
\* is the active one, with its base image shown.
ActiveDeleted ==
  /\ Len(sessionHistory) = 1
  /\ sessionHistory[1].id = 2
  /\ activeHistoryId = 2
  /\ baseImage = sessionHistory[1].baseImage
  /\ gesture = NoGesture

\* The slots of urls that hold an image.
Occupied(urls) == { j \in 1..3 : urls[j] # NoImage }

\* C40: when a call of addElementImage completes, also one that overlapped
\* with another, every slot that held an image still holds that image and
\* the image added is in a slot that was empty: no image is lost or
\* overwritten, and there is one more than before.
AddKeepsElements ==
  [][\A i \in 1..MaxAdds :
       addElementImageEnd(i)
         => /\ \A j \in Occupied(elementImageUrls) :
                 elementImageUrls'[j] = elementImageUrls[j]
            /\ Cardinality(Occupied(elementImageUrls'))
                 = Cardinality(Occupied(elementImageUrls)) + 1]_vars

====
